---------------------------- MODULE PassiveHealth ----------------------------
(***************************************************************************)
(* The passive health checker (src/health/passive.rs): per backend URL, a  *)
(* verdict derived from the responses the proxy sees.                      *)
(*                                                                         *)
(* record_response runs under the write lock of `backends`, so one call is *)
(* one step.  Time is discrete: a sliding window of Window ticks is kept as*)
(* the number of failures of each age, and Tick makes every entry older.   *)
(* Successful entries of the window are counted by nobody (_total_count is *)
(* dropped at line 191) and are left out.  Counters are compared with a    *)
(* threshold and otherwise only reset, so each is kept up to its threshold:*)
(* no comparison can tell the difference.                                  *)
(***************************************************************************)
EXTENDS Naturals, FiniteSetsExt

CONSTANTS
    Urls,              \* backend URLs, the keys of `backends`
    FailureThreshold,  \* PassiveHealthConfig.failure_threshold (5)
    SuccessThreshold,  \* PassiveHealthConfig.success_threshold (2)
    Window,            \* PassiveHealthConfig.window_duration, in ticks
    RecoveryInterval   \* PassiveHealthConfig.recovery_interval, in ticks

ASSUME PassiveConfig ==
    /\ FailureThreshold \in Nat \ {0}
    /\ SuccessThreshold \in Nat \ {0}
    /\ Window \in Nat \ {0}
    /\ RecoveryInterval \in Nat

VARIABLES
    backends,  \* the map of BackendState; an absent entry reads as NewBackend
    streak     \* history: successes since the last failure or ejection

passiveVars == <<backends, streak>>

Ages == 0 .. Window - 1

UpTo(n, cap) == IF n < cap THEN n ELSE cap

BackendState ==
    [healthy   : BOOLEAN,
     failures  : 0 .. FailureThreshold,   \* consecutive_failures
     successes : 0 .. SuccessThreshold,   \* consecutive_successes
     downFor   : 0 .. RecoveryInterval,   \* time since unhealthy_since
     window    : [Ages -> 0 .. FailureThreshold]]

NewBackend ==
    [healthy |-> TRUE, failures |-> 0, successes |-> 0, downFor |-> 0,
     window |-> [a \in Ages |-> 0]]

IsHealthy(u) == backends[u].healthy

CanTry(u) == backends[u].healthy \/ backends[u].downFor >= RecoveryInterval

(***************************************************************************)
(* SlidingWindow::add.  Entries of age Window or more have been dropped by *)
(* Tick, which is the retain of line 102 seen from the reader.             *)
(***************************************************************************)
WindowAdd(w, failed) ==
    IF failed THEN [w EXCEPT ![0] = UpTo(@ + 1, FailureThreshold)] ELSE w

WindowFailures(w) == MapThenSumSet(LAMBDA a : w[a], Ages)

(* The consecutive counters and the window, before the verdict is revised. *)
Counted(b, failed) ==
    [b EXCEPT
        !.failures  = IF failed THEN UpTo(@ + 1, FailureThreshold) ELSE 0,
        !.successes = IF failed THEN 0 ELSE UpTo(@ + 1, SuccessThreshold),
        !.window    = WindowAdd(@, failed)]

MustEject(c) ==
    c.healthy /\ (\/ c.failures >= FailureThreshold
                  \/ WindowFailures(c.window) >= FailureThreshold)

(* Mutant: one success less is enough. *)
MustReadmitEarly(c) == ~c.healthy /\ c.successes + 1 >= SuccessThreshold

MustReadmit(c) == ~c.healthy /\ c.successes >= SuccessThreshold

Ejected(c) ==
    [healthy |-> FALSE, failures |-> c.failures, successes |-> 0,
     downFor |-> 0, window |-> c.window]

Readmitted(c) ==
    [healthy |-> TRUE, failures |-> 0, successes |-> c.successes,
     downFor |-> 0, window |-> c.window]

(* The BackendState record_response leaves behind. *)
Recorded(b, failed) ==
    LET c == Counted(b, failed) IN
    IF MustEject(c) THEN Ejected(c)
    ELSE IF MustReadmit(c) THEN Readmitted(c)
    ELSE c

(* The HealthChange record_response returns for the step from b to c. *)
ChangeOf(b, c) ==
    IF b.healthy = c.healthy THEN "NoChange"
    ELSE IF c.healthy THEN "BecameHealthy" ELSE "BecameUnhealthy"

(* Mutant: entries are never dropped from the window. *)
OlderKeepsWindow(b) ==
    [b EXCEPT !.downFor = IF b.healthy THEN 0 ELSE UpTo(@ + 1, RecoveryInterval)]

(* A tick of the clock, as the next look at Instant::now sees it. *)
Older(b) ==
    [b EXCEPT
        !.downFor = IF b.healthy THEN 0 ELSE UpTo(@ + 1, RecoveryInterval),
        !.window  = [a \in Ages |-> IF a = 0 THEN 0 ELSE @[a - 1]]]

-----------------------------------------------------------------------------
PassiveInit ==
    /\ backends = [u \in Urls |-> NewBackend]
    /\ streak = [u \in Urls |-> 0]

RecordResponse(u, failed) ==
    /\ backends' = [backends EXCEPT ![u] = Recorded(@, failed)]
    /\ streak' = [streak EXCEPT ![u] =
            IF failed \/ (IsHealthy(u) /\ ~backends'[u].healthy) THEN 0
            ELSE UpTo(@ + 1, SuccessThreshold)]

PassiveTick ==
    /\ backends' = [u \in Urls |-> Older(backends[u])]
    /\ UNCHANGED streak

PassiveNext ==
    \/ \E u \in Urls, failed \in BOOLEAN : RecordResponse(u, failed)
    \/ PassiveTick

PassiveSpec == PassiveInit /\ [][PassiveNext]_passiveVars

(***************************************************************************)
(* Time passes, and a backend that stopped failing goes on answering: what *)
(* a client that keeps calling it guarantees.                              *)
(***************************************************************************)
PassiveFairSpec ==
    /\ PassiveSpec
    /\ WF_passiveVars(PassiveTick)
    /\ \A u \in Urls : WF_passiveVars(RecordResponse(u, FALSE))

-----------------------------------------------------------------------------
(* Every backend record has the shape the Rust types give it. *)
PassiveTypeOK ==
    /\ backends \in [Urls -> BackendState]
    /\ streak \in [Urls -> 0 .. SuccessThreshold]

(***************************************************************************)
(* A verdict is revised by the very response that reaches a threshold: a   *)
(* healthy backend never rests with failure_threshold consecutive failures *)
(* behind it, an ejected one never rests with success_threshold successes. *)
(***************************************************************************)
VerdictPrompt ==
    \A u \in Urls :
        IF IsHealthy(u) THEN backends[u].failures < FailureThreshold
                        ELSE backends[u].successes < SuccessThreshold

(***************************************************************************)
(* An ejected backend is readmitted only by success_threshold successes in *)
(* a row that all came after the ejection ("Consecutive successes (after   *)
(* being marked unhealthy)").  The ejecting response may be a success, so  *)
(* this rests on the reset at line 212.                                    *)
(***************************************************************************)
ReadmitEarned ==
    [][\A u \in Urls :
          ~IsHealthy(u) /\ IsHealthy(u)' => streak'[u] >= SuccessThreshold]_passiveVars

(***************************************************************************)
(* record_response decides exactly at its thresholds: a verdict is neither *)
(* late, nor is a readmission early.                                       *)
(***************************************************************************)
ResponsesDecide == []VerdictPrompt /\ ReadmitEarned

NoFailure(u) == ~RecordResponse(u, TRUE)

(***************************************************************************)
(* Once a backend that keeps being called stops failing, it is readmitted  *)
(* and stays so: the failures left in the window eject it at most finitely *)
(* often before they expire.                                               *)
(***************************************************************************)
RecoversForGood ==
    \A u \in Urls :
        <>[][NoFailure(u)]_passiveVars => <>[]IsHealthy(u)
=============================================================================
