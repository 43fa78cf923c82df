--------------------------- MODULE CircuitBreaker ---------------------------
(***************************************************************************)
(* The circuit breaker of health/circuit_breaker.rs, one atomic operation  *)
(* per step.  Any number of callers share it.  A caller asks allow_request,*)
(* and if it is let through it reports the outcome with record_success or  *)
(* record_failure; each of the three first runs state(), which may itself  *)
(* turn an open breaker half-open.  Atomics are read and written in a      *)
(* single order.  Instants are kept as ages, which saturate at Timeout.    *)
(***************************************************************************)
EXTENDS Naturals

CONSTANTS
  Threads,    \* callers
  Threshold,  \* failure_threshold
  Timeout,    \* recovery_timeout_ms, in ticks
  MaxFails    \* bound on the failures that are reported

\* "After a few successes in half-open, close the circuit".
Closing == 3

ASSUME BreakerConfig ==
  Threshold \in Nat \ {0} /\ Timeout \in Nat \ {0} /\ MaxFails \in Nat

VARIABLES
  state,      \* 0 = Closed, 1 = Open, 2 = HalfOpen
  failures,
  successes,
  opened,     \* age of opened_at: epoch.elapsed() - opened_at
  pc,         \* the next step of each caller
  op,         \* the operation it is in
  seen,       \* age of the opened_at that it has loaded
  reported,   \* failures reported so far
  overlapped  \* history: two calls have overlapped since none was under way

breakerVars == <<state, failures, successes, opened, pc, op, seen, reported>>
cbVars == <<breakerVars, overlapped>>

CbInit ==
  /\ state = "closed" /\ failures = 0 /\ successes = 0 /\ opened = 0
  /\ pc = [t \in Threads |-> "idle"]
  /\ op = [t \in Threads |-> "allow"]
  /\ seen = [t \in Threads |-> 0]
  /\ reported = 0 /\ overlapped = FALSE

Goto(t, l) == pc' = [pc EXCEPT ![t] = l]

-----------------------------------------------------------------------------
\* Mutated forms of the operations below.

ClearNothing(t) ==
  /\ pc[t] = "clear"
  /\ Goto(t, "probing")
  /\ UNCHANGED <<state, failures, successes, opened, op, seen, reported>>

-----------------------------------------------------------------------------
\* A caller wants to send a request.
AllowRequest(t) ==
  /\ pc[t] = "idle"
  /\ op' = [op EXCEPT ![t] = "allow"]
  /\ Goto(t, "load")
  /\ UNCHANGED <<state, failures, successes, opened, seen, reported>>

\* Its request was answered.
RecordSuccess(t) ==
  /\ pc[t] = "sent"
  /\ op' = [op EXCEPT ![t] = "success"]
  /\ Goto(t, "load")
  /\ UNCHANGED <<state, failures, successes, opened, seen, reported>>

\* Its request failed.
RecordFailure(t) ==
  /\ pc[t] = "sent" /\ reported < MaxFails
  /\ reported' = reported + 1
  /\ op' = [op EXCEPT ![t] = "failure"]
  /\ Goto(t, "load")
  /\ UNCHANGED <<state, failures, successes, opened, seen>>

\* state(), line by line.
LoadState(t) ==
  /\ pc[t] = "load"
  /\ Goto(t, IF state = "half" THEN "probing" ELSE state)
  /\ UNCHANGED <<state, failures, successes, opened, op, seen, reported>>

LoadOpenedAt(t) ==
  /\ pc[t] = "open"
  /\ seen' = [seen EXCEPT ![t] = opened]
  /\ Goto(t, "compare")
  /\ UNCHANGED <<state, failures, successes, opened, op, reported>>

Compare(t) ==
  /\ pc[t] = "compare"
  /\ Goto(t, IF seen[t] >= Timeout THEN "half" ELSE "rejected")
  /\ UNCHANGED <<state, failures, successes, opened, op, seen, reported>>

StoreHalfOpen(t) ==
  /\ pc[t] = "half"
  /\ state' = "half"
  /\ Goto(t, "clear")
  /\ UNCHANGED <<failures, successes, opened, op, seen, reported>>

ClearSuccesses(t) ==
  /\ pc[t] = "clear"
  /\ successes' = 0
  /\ Goto(t, "probing")
  /\ UNCHANGED <<state, failures, opened, op, seen, reported>>

\* What each operation does with the state it was given.
Closed(t) ==
  /\ pc[t] = "closed"
  /\ \/ op[t] = "allow" /\ Goto(t, "sent") /\ UNCHANGED failures
     \/ op[t] = "success" /\ failures' = 0 /\ Goto(t, "idle")
     \/ /\ op[t] = "failure" /\ failures' = failures + 1
        /\ Goto(t, IF failures + 1 >= Threshold THEN "trip" ELSE "idle")
  /\ UNCHANGED <<state, successes, opened, op, seen, reported>>

HalfOpen(t) ==
  /\ pc[t] = "probing"
  /\ \/ op[t] = "allow" /\ Goto(t, "sent") /\ UNCHANGED successes
     \/ /\ op[t] = "success" /\ successes' = successes + 1
        /\ Goto(t, IF successes + 1 >= Closing THEN "close" ELSE "idle")
     \/ op[t] = "failure" /\ Goto(t, "trip") /\ UNCHANGED successes
  /\ UNCHANGED <<state, failures, opened, op, seen, reported>>

\* Open: the request is rejected, the outcome ignored.
Open(t) ==
  /\ pc[t] = "rejected"
  /\ Goto(t, "idle")
  /\ UNCHANGED <<state, failures, successes, opened, op, seen, reported>>

\* The stores that close the breaker ...
StoreClosed(t) ==
  /\ pc[t] = "close"
  /\ state' = "closed"
  /\ Goto(t, "forget")
  /\ UNCHANGED <<failures, successes, opened, op, seen, reported>>

StoreFailures(t) ==
  /\ pc[t] = "forget"
  /\ failures' = 0
  /\ Goto(t, "idle")
  /\ UNCHANGED <<state, successes, opened, op, seen, reported>>

\* ... and the ones that open it.
StoreOpen(t) ==
  /\ pc[t] = "trip"
  /\ state' = "open"
  /\ Goto(t, "stamp")
  /\ UNCHANGED <<failures, successes, opened, op, seen, reported>>

StoreOpenedAt(t) ==
  /\ pc[t] = "stamp"
  /\ opened' = 0
  /\ Goto(t, "idle")
  /\ UNCHANGED <<state, failures, successes, op, seen, reported>>

\* reset(): three stores.
Reset(t) ==
  /\ pc[t] = "idle"
  /\ state' = "closed"
  /\ Goto(t, "reset failures")
  /\ UNCHANGED <<failures, successes, opened, op, seen, reported>>

ResetFailures(t) ==
  /\ pc[t] = "reset failures"
  /\ failures' = 0
  /\ Goto(t, "reset successes")
  /\ UNCHANGED <<state, successes, opened, op, seen, reported>>

ResetSuccesses(t) ==
  /\ pc[t] = "reset successes"
  /\ successes' = 0
  /\ Goto(t, "idle")
  /\ UNCHANGED <<state, failures, opened, op, seen, reported>>

Aged(a) == IF a < Timeout THEN a + 1 ELSE a

CbTick ==
  /\ opened' = Aged(opened)
  /\ seen' = [t \in Threads |-> Aged(seen[t])]
  /\ UNCHANGED <<state, failures, successes, pc, op, reported>>

Step(t) ==
  \/ LoadState(t) \/ LoadOpenedAt(t) \/ Compare(t) \/ StoreHalfOpen(t)
  \/ ClearSuccesses(t) \/ Closed(t) \/ HalfOpen(t) \/ Open(t)
  \/ StoreClosed(t) \/ StoreFailures(t) \/ StoreOpen(t) \/ StoreOpenedAt(t)
  \/ ResetFailures(t) \/ ResetSuccesses(t)

Call(t) == AllowRequest(t) \/ RecordSuccess(t) \/ RecordFailure(t)

\* The callers in the middle of an operation, given where each of them is.
Busy(at) == {t \in Threads : at[t] \notin {"idle", "sent"}}

CbNext ==
  /\ CbTick \/ \E t \in Threads : Call(t) \/ Step(t) \/ Reset(t)
  /\ overlapped' = \/ \E t, u \in Busy(pc') : t # u
                   \/ overlapped /\ Busy(pc') # {}

CbSpec == CbInit /\ [][CbNext]_cbVars

-----------------------------------------------------------------------------
Labels == {"idle", "sent", "load", "open", "compare", "half", "clear", "closed",
           "probing", "rejected", "close", "forget", "trip", "stamp",
           "reset failures", "reset successes"}

\* The type invariant of the breaker.
CbTypeOK ==
  /\ state \in {"closed", "open", "half"}
  /\ failures \in Nat
  /\ successes \in Nat
  /\ opened \in 0..Timeout
  /\ pc \in [Threads -> Labels]
  /\ op \in [Threads -> {"allow", "success", "failure"}]
  /\ seen \in [Threads -> 0..Timeout]
  /\ reported \in 0..MaxFails

SomeAt(ls) == \E t \in Threads : pc[t] \in ls

Abstract == INSTANCE Breaker WITH
  mode <- IF SomeAt({"trip"}) THEN "open" ELSE IF SomeAt({"close"}) THEN "closed" ELSE state,
  fails <- IF SomeAt({"close", "forget", "reset failures"}) THEN 0 ELSE failures,
  goods <- IF SomeAt({"clear", "reset failures", "reset successes"}) THEN 0 ELSE successes,
  age <- IF SomeAt({"trip", "stamp"}) THEN 0 ELSE opened

\* As long as no call overlaps another the sequences of atomic operations implement
\* the breaker whose operations are single steps: it opens after failure_threshold
\* failures, stays open for the whole recovery timeout and closes after three
\* successes counted since.  Calls that overlap may differ, because the state is
\* stored before opened_at (lines 107-109, 114-116) and before successes is cleared
\* (lines 53-54), but once they are done the next ones keep the promise again.
Implements ==
  /\ Abstract!BInit
  /\ [][overlapped \/ overlapped' \/ [Abstract!BNext]_(Abstract!bvars)]_cbVars
=============================================================================
