---------------------------- MODULE ActiveHealth ----------------------------
(***************************************************************************)
(* The active health checks (src/health/checker.rs, health/mod.rs) and the *)
(* failover router that reads their verdict (src/service/failover.rs).     *)
(* One checker task per server asks, waits for an answer or the timeout,   *)
(* counts and decides; the counters and the verdict are atomics that the   *)
(* router reads at any time.                                               *)
(***************************************************************************)
EXTENDS Integers, FiniteSets

CONSTANTS
  Expected,      \* config.status, or "any"
  CounterWidth   \* the counters are modulo this; 2^32 in the code

HealthyThreshold == 2
UnhealthyThreshold == 3
Statuses == {"success", "notFound", "clientError", "serverError"}
Moods == Statuses \cup {"refuses", "silent"}

ASSUME ActiveConfig ==
  Expected \in Statuses \cup {"any"} /\ CounterWidth \in Nat /\ CounterWidth > UnhealthyThreshold

VARIABLES
  mood,       \* what the backend would do with a request now
  check,      \* where the checker is
  verdict,    \* HealthStatus.healthy
  upRow,      \* consecutive_successes
  downRow,    \* consecutive_failures
  router,     \* the failover router: its source, and primary_healthy
  inARow      \* history: the last outcome and how often in a row (capped)

activeVars == <<mood, check, verdict, upRow, downRow, router, inARow>>

ActiveInit ==
  /\ mood \in Moods
  /\ check = "waiting"
  /\ verdict = TRUE
  /\ upRow = 0 /\ downRow = 0
  /\ router \in [status : BOOLEAN, primary : {TRUE}]
  /\ inARow = [passed |-> TRUE, n |-> 0]

\* perform_http_check on an answer: the configured status, or else anything
\* that is not a server error.
Acceptable(status) ==
  IF Expected # "any" THEN status = Expected ELSE status # "serverError"

\* FailoverServiceRouter::active_service and is_using_primary.
UsesPrimary == IF router.status THEN verdict ELSE router.primary
Inc(n) == (n + 1) % CounterWidth
Observed(b) ==
  inARow' = [passed |-> b,
             n |-> IF inARow.passed = b /\ inARow.n < UnhealthyThreshold THEN inARow.n + 1
                   ELSE IF inARow.passed = b THEN inARow.n ELSE 1]

\* Mutant: one pass is enough.
DecideUpAtOnce ==
  /\ check = "decideUp"
  /\ verdict' = TRUE
  /\ check' = "waiting"
  /\ UNCHANGED <<mood, upRow, downRow, router, inARow>>

\* The ticker fires and the request goes out.
Ask ==
  /\ check = "waiting" /\ check' = "asked"
  /\ UNCHANGED <<mood, verdict, upRow, downRow, router, inARow>>

\* The answer comes, or an error, before the timeout.
Answered ==
  /\ check = "asked" /\ mood # "silent"
  /\ LET b == mood \in Statuses /\ Acceptable(mood)
     IN  check' = (IF b THEN "passed" ELSE "failed") /\ Observed(b)
  /\ UNCHANGED <<mood, verdict, upRow, downRow, router>>

TimeOut ==
  /\ check = "asked"
  /\ check' = "failed" /\ Observed(FALSE)
  /\ UNCHANGED <<mood, verdict, upRow, downRow, router>>

\* record_success and record_failure: two atomics, one after the other.
CountSuccess ==
  /\ check = "passed" /\ upRow' = Inc(upRow)
  /\ check' = "clearFailures"
  /\ UNCHANGED <<mood, verdict, downRow, router, inARow>>

ClearFailures ==
  /\ check = "clearFailures" /\ downRow' = 0
  /\ check' = "decideUp"
  /\ UNCHANGED <<mood, verdict, upRow, router, inARow>>

CountFailure ==
  /\ check = "failed" /\ downRow' = Inc(downRow)
  /\ check' = "clearSuccesses"
  /\ UNCHANGED <<mood, verdict, upRow, router, inARow>>

ForgetSuccesses ==
  /\ check = "clearSuccesses" /\ upRow' = 0
  /\ check' = "decideDown"
  /\ UNCHANGED <<mood, verdict, downRow, router, inARow>>

\* The loop's decision; nothing else writes the verdict.
DecideUp ==
  /\ check = "decideUp"
  /\ verdict' = (verdict \/ upRow >= HealthyThreshold)
  /\ check' = "waiting"
  /\ UNCHANGED <<mood, upRow, downRow, router, inARow>>

DecideDown ==
  /\ check = "decideDown"
  /\ verdict' = (verdict /\ downRow < UnhealthyThreshold)
  /\ check' = "waiting"
  /\ UNCHANGED <<mood, upRow, downRow, router, inARow>>

\* mark_primary_healthy and mark_primary_unhealthy of a router without a status.
MarkPrimary(b) ==
  /\ router.primary # b /\ router' = [router EXCEPT !.primary = b]
  /\ UNCHANGED <<mood, check, verdict, upRow, downRow, inARow>>

BackendChanges ==
  /\ mood' \in Moods \ {mood}
  /\ UNCHANGED <<check, verdict, upRow, downRow, router, inARow>>

CheckerStep ==
  \/ Ask \/ Answered \/ TimeOut
  \/ CountSuccess \/ ClearFailures \/ CountFailure \/ ForgetSuccesses
  \/ DecideUp \/ DecideDown

ActiveNext ==
  \/ CheckerStep
  \/ \E b \in BOOLEAN : MarkPrimary(b)
  \/ BackendChanges

ActiveSpec == ActiveInit /\ [][ActiveNext]_activeVars
ActiveFairSpec == ActiveSpec /\ WF_activeVars(CheckerStep)

-----------------------------------------------------------------------------
(* Properties *)

\* The verdict follows the checks, through any wrap of the counters: after three
\* downRow in a row a server is down, after two passes in a row it is up.
VerdictFollows ==
  check = "waiting" =>
    /\ ~inARow.passed /\ inARow.n >= UnhealthyThreshold => ~verdict
    /\ inARow.passed /\ inARow.n >= HealthyThreshold => verdict

\* A verdict is earned: it changes only at the end of a check, down only after
\* three downRow in a row and up only after two passes in a row.
VerdictEarned ==
  [][verdict' # verdict =>
       IF verdict THEN ~inARow.passed /\ inARow.n >= UnhealthyThreshold
       ELSE inARow.passed /\ inARow.n >= HealthyThreshold]_activeVars

\* A primary that stays silent, or stays unreachable, is given up for the
\* fallback for as long as it stays so.
FailoverFollows ==
  (router.status /\ <>[](mood \in {"silent", "refuses"})) => <>[]~UsesPrimary

\* The verdict is exactly what the checks say: it never lags behind a streak
\* that is long enough and never changes without one.
VerdictExact == []VerdictFollows /\ VerdictEarned
=============================================================================
