---------------------------- MODULE HealthProofs ----------------------------
(***************************************************************************)
(* Proofs about what a caller of a backend relies on: the verdict of the   *)
(* active health checks, for counters of any width, the connections the    *)
(* HTTP/2 pool hands out, for any number of requests and hosts, what an    *)
(* accepted configuration is made into, and the circuit breaker, which     *)
(* implements the breaker with single steps as long as calls do not        *)
(* overlap, for any thresholds and any timeout.                            *)
(***************************************************************************)
EXTENDS ActiveHealth, H2Pool, ConfigCheck, CircuitBreaker, TLAPS

-----------------------------------------------------------------------------
(* The active health checks.  Below its threshold the counter of the       *)
(* streak under way is exactly the streak; from there on the verdict has   *)
(* been given, and a counter that wraps round can no longer change it.     *)

Phases == {"waiting", "asked", "passed", "clearFailures", "decideUp",
           "failed", "clearSuccesses", "decideDown"}

StreakTypes ==
  /\ check \in Phases /\ verdict \in BOOLEAN
  /\ upRow \in Nat /\ downRow \in Nat
  /\ inARow \in [passed : BOOLEAN, n : 0 .. 3]

\* Where no check is being counted.
RestInv ==
  check \in {"waiting", "asked"} =>
    /\ inARow.passed => /\ downRow = 0
                        /\ inARow.n < 3 => upRow = inARow.n
                        /\ inARow.n >= 2 => verdict
    /\ ~inARow.passed => /\ upRow = 0
                         /\ inARow.n < 3 => downRow = inARow.n
                         /\ inARow.n = 3 => ~verdict

\* A check that passed, before and after it is counted.
PassInv ==
  /\ check \in {"passed", "clearFailures", "decideUp"} =>
       inARow.passed /\ inARow.n >= 1 /\ (inARow.n = 3 => verdict)
  /\ check = "passed" /\ inARow.n < 3 => upRow = inARow.n - 1
  /\ check \in {"clearFailures", "decideUp"} /\ inARow.n < 3 => upRow = inARow.n
  /\ check = "decideUp" => downRow = 0

\* A check that failed.
FailInv ==
  /\ check \in {"failed", "clearSuccesses", "decideDown"} => ~inARow.passed /\ inARow.n >= 1
  /\ check = "failed" => downRow = inARow.n - 1 \/ (inARow.n = 3 /\ ~verdict)
  /\ check \in {"clearSuccesses", "decideDown"} => downRow = inARow.n \/ (inARow.n = 3 /\ ~verdict)
  /\ check = "decideDown" => upRow = 0

StreakInv == StreakTypes /\ RestInv /\ PassInv /\ FailInv

LEMMA SmallInc ==
  ASSUME NEW k \in 0 .. 2 PROVE Inc(k) = k + 1
BY ActiveConfig DEF Inc, UnhealthyThreshold

LEMMA IncNat ==
  ASSUME NEW k \in Nat PROVE Inc(k) \in Nat
BY ActiveConfig DEF Inc, UnhealthyThreshold

LEMMA ActiveInitInv == ActiveInit => StreakInv
BY DEF ActiveInit, StreakInv, StreakTypes, Phases, RestInv, PassInv, FailInv

\* What Observed records of a check that came out as b.
LEMMA ObservedStreak ==
  ASSUME StreakTypes, NEW b \in BOOLEAN, Observed(b)
  PROVE  /\ inARow' \in [passed : BOOLEAN, n : 0 .. 3]
         /\ inARow'.passed = b
         /\ inARow.passed = b /\ inARow.n < 3 => inARow'.n = inARow.n + 1
         /\ inARow.passed = b /\ inARow.n = 3 => inARow'.n = 3
         /\ inARow.passed # b => inARow'.n = 1
BY DEF StreakTypes, Observed, UnhealthyThreshold

LEMMA ActiveStepInv == StreakInv /\ [ActiveNext]_activeVars => StreakInv'
<1> SUFFICES ASSUME StreakInv, [ActiveNext]_activeVars PROVE StreakInv'
  OBVIOUS
<1>0. StreakTypes /\ RestInv /\ PassInv /\ FailInv
  BY DEF StreakInv
<1> USE DEF StreakInv
<1>1. CASE Ask
  BY <1>0, <1>1 DEF Ask, StreakTypes, Phases, RestInv, PassInv, FailInv
<1>2. ASSUME NEW b \in BOOLEAN, check = "asked", Observed(b),
             check' = IF b THEN "passed" ELSE "failed", UNCHANGED <<verdict, upRow, downRow>>
      PROVE  StreakInv'
  <2>1. /\ inARow' \in [passed : BOOLEAN, n : 0 .. 3] /\ inARow'.passed = b
        /\ inARow.passed = b /\ inARow.n < 3 => inARow'.n = inARow.n + 1
        /\ inARow.passed = b /\ inARow.n = 3 => inARow'.n = 3
        /\ inARow.passed # b => inARow'.n = 1
    BY <1>0, <1>2, ObservedStreak
  <2>2. inARow.n \in 0 .. 3 /\ inARow.passed \in BOOLEAN
    BY <1>0 DEF StreakTypes
  <2>3. StreakTypes'
    BY <1>0, <1>2, <2>1 DEF StreakTypes, Phases
  <2>4. CASE b = TRUE
    <3>1. check' = "passed"
      BY <1>2, <2>4
    <3>2. CASE inARow.passed = TRUE
      <4>1. inARow'.n >= 1 /\ (inARow'.n < 3 => upRow = inARow'.n - 1)
            /\ (inARow'.n = 3 => inARow.n >= 2)
        <5>1. inARow.n < 3 => upRow = inARow.n
          BY <1>0, <1>2, <3>2 DEF RestInv
        <5>2. (inARow.n < 3 => inARow'.n = inARow.n + 1) /\ (inARow.n = 3 => inARow'.n = 3)
          BY <2>1, <2>4, <3>2, Zenon
        <5> QED BY <2>2, <5>1, <5>2
      <4>2. inARow.n >= 2 => verdict
        BY <1>0, <1>2, <3>2 DEF RestInv
      <4> QED BY <1>2, <2>1, <2>3, <2>4, <3>1, <4>1, <4>2 DEF RestInv, PassInv, FailInv
    <3>3. CASE inARow.passed = FALSE
      <4>1. inARow'.n = 1 /\ upRow = 0
        BY <1>0, <1>2, <2>1, <2>4, <3>3, Zenon DEF RestInv
      <4> QED BY <1>2, <2>1, <2>3, <2>4, <3>1, <4>1 DEF RestInv, PassInv, FailInv
    <3> QED BY <2>2, <3>2, <3>3, Zenon
  <2>5. CASE b = FALSE
    <3>1. check' = "failed"
      BY <1>2, <2>5
    <3>2. FailInv'
      BY <1>0, <1>2, <2>1, <2>2, <2>5, <3>1 DEF FailInv, RestInv, StreakTypes
    <3> QED BY <2>3, <3>1, <3>2 DEF RestInv, PassInv
  <2> QED BY <1>2, <2>4, <2>5, Zenon
<1>3. CASE Answered
  <2>1. PICK b \in BOOLEAN : Observed(b) /\ check' = IF b THEN "passed" ELSE "failed"
    BY <1>3, Zenon DEF Answered
  <2> QED BY <1>2, <1>3, <2>1 DEF Answered
<1>4. CASE TimeOut
  BY <1>2, <1>4, Zenon DEF TimeOut
<1>5. CASE CountSuccess
  <2>1. StreakTypes'
    BY <1>0, <1>5, IncNat DEF CountSuccess, StreakTypes, Phases
  <2>2. inARow.n < 3 => upRow' = inARow.n
    BY <1>0, <1>5, SmallInc DEF CountSuccess, StreakTypes, PassInv
  <2> QED BY <1>0, <1>5, <2>1, <2>2 DEF CountSuccess, RestInv, PassInv, FailInv
<1>6. CASE ClearFailures
  BY <1>0, <1>6 DEF ClearFailures, StreakTypes, Phases, RestInv, PassInv, FailInv
<1>7. CASE CountFailure
  <2>1. StreakTypes'
    BY <1>0, <1>7, IncNat DEF CountFailure, StreakTypes, Phases
  <2>2. downRow' = inARow.n \/ (inARow.n = 3 /\ ~verdict)
    BY <1>0, <1>7, SmallInc DEF CountFailure, StreakTypes, FailInv
  <2> QED BY <1>0, <1>7, <2>1, <2>2 DEF CountFailure, RestInv, PassInv, FailInv
<1>8. CASE ForgetSuccesses
  BY <1>0, <1>8 DEF ForgetSuccesses, StreakTypes, Phases, RestInv, PassInv, FailInv
<1>9. CASE DecideUp
  <2>1. StreakTypes'
    BY <1>0, <1>9 DEF DecideUp, StreakTypes, Phases
  <2>2. inARow.n \in 1 .. 3 /\ inARow.passed /\ downRow = 0 /\ (inARow.n < 3 => upRow = inARow.n)
    BY <1>0, <1>9 DEF DecideUp, StreakTypes, PassInv
  <2>3. inARow.n >= 2 => verdict'
    <3>1. CASE inARow.n = 2
      <4>1. upRow >= HealthyThreshold
        BY <2>2, <3>1 DEF HealthyThreshold
      <4> QED BY <1>9, <4>1, Zenon DEF DecideUp
    <3>2. CASE inARow.n = 3
      BY <1>0, <1>9, <3>2, Zenon DEF DecideUp, PassInv
    <3> QED BY <2>2, <3>1, <3>2
  <2> QED BY <1>9, <2>1, <2>2, <2>3 DEF DecideUp, RestInv, PassInv, FailInv
<1>10. CASE DecideDown
  <2>1. StreakTypes'
    BY <1>0, <1>10 DEF DecideDown, StreakTypes, Phases
  <2>2. inARow.n \in 1 .. 3 /\ ~inARow.passed /\ upRow = 0
        /\ (downRow = inARow.n \/ (inARow.n = 3 /\ ~verdict))
    BY <1>0, <1>10 DEF DecideDown, StreakTypes, FailInv
  <2>3. inARow.n = 3 => ~verdict'
    <3>1. downRow = 3 => ~(downRow < UnhealthyThreshold)
      BY DEF UnhealthyThreshold
    <3> QED BY <1>10, <2>2, <3>1, Zenon DEF DecideDown
  <2> QED BY <1>10, <2>1, <2>2, <2>3 DEF DecideDown, RestInv, PassInv, FailInv
<1>11. CASE \E b \in BOOLEAN : MarkPrimary(b)
  BY <1>0, <1>11 DEF MarkPrimary, StreakTypes, RestInv, PassInv, FailInv
<1>12. CASE BackendChanges \/ UNCHANGED activeVars
  BY <1>0, <1>12 DEF BackendChanges, activeVars, StreakTypes, RestInv, PassInv, FailInv
<1> QED
  BY <1>1, <1>3, <1>4, <1>5, <1>6, <1>7, <1>8, <1>9, <1>10, <1>11, <1>12 DEF ActiveNext, CheckerStep

(***************************************************************************)
(* The verdict of the health checks is exact for counters of any width,    *)
(* wrapping or not: it is down after three downRow in a row and up after  *)
(* two passes in a row, and it changes at no other moment.                 *)
(***************************************************************************)
THEOREM ActiveVerdictExact == ActiveSpec => VerdictExact
<1>1. ActiveSpec => []StreakInv
  BY ActiveInitInv, ActiveStepInv, PTL DEF ActiveSpec
<1>2. StreakInv => VerdictFollows
  <2> SUFFICES ASSUME StreakInv, check = "waiting" PROVE
                 /\ ~inARow.passed /\ inARow.n >= UnhealthyThreshold => ~verdict
                 /\ inARow.passed /\ inARow.n >= HealthyThreshold => verdict
    BY DEF VerdictFollows
  <2> QED BY DEF StreakInv, StreakTypes, RestInv, UnhealthyThreshold, HealthyThreshold
<1>3. StreakInv /\ [ActiveNext]_activeVars =>
        [verdict' # verdict =>
           IF verdict THEN ~inARow.passed /\ inARow.n >= UnhealthyThreshold
           ELSE inARow.passed /\ inARow.n >= HealthyThreshold]_activeVars
  <2> SUFFICES ASSUME StreakInv, ActiveNext, verdict' # verdict
               PROVE  IF verdict THEN ~inARow.passed /\ inARow.n >= UnhealthyThreshold
                      ELSE inARow.passed /\ inARow.n >= HealthyThreshold
    OBVIOUS
  <2>1. CASE DecideUp
    <3>1. ~verdict /\ upRow >= 2
      BY <2>1 DEF DecideUp, HealthyThreshold, StreakInv, StreakTypes
    <3>2. inARow.passed /\ inARow.n >= 2
      BY <2>1, <3>1 DEF DecideUp, StreakInv, StreakTypes, PassInv
    <3> QED BY <3>1, <3>2 DEF HealthyThreshold
  <2>2. CASE DecideDown
    <3>1. verdict /\ ~(downRow < 3)
      BY <2>2 DEF DecideDown, UnhealthyThreshold, StreakInv, StreakTypes
    <3>2. ~inARow.passed /\ inARow.n >= 3
      BY <2>2, <3>1 DEF DecideDown, StreakInv, StreakTypes, FailInv
    <3> QED BY <3>1, <3>2 DEF UnhealthyThreshold
  <2>3. ASSUME \/ Ask \/ Answered \/ TimeOut \/ CountSuccess \/ ClearFailures
               \/ CountFailure \/ ForgetSuccesses \/ BackendChanges
               \/ \E b \in BOOLEAN : MarkPrimary(b)
        PROVE  FALSE
    BY <2>3, Zenon DEF Ask, Answered, TimeOut, CountSuccess, ClearFailures, CountFailure, ForgetSuccesses,
       BackendChanges, MarkPrimary
  <2> QED BY <2>1, <2>2, <2>3 DEF ActiveNext, CheckerStep
<1> QED BY <1>1, <1>2, <1>3, PTL DEF ActiveSpec, VerdictExact, VerdictEarned

-----------------------------------------------------------------------------
(* The HTTP/2 pool.  Whoever has a connection got it while it was open, or *)
(* made it: so it is open still, or its death has been noted against them. *)

H2Places == {"new", "read", "check", "connect", "insert", "given", "queued", "sent", "done", "failed"}

H2Types ==
  /\ h2 \in [H2Reqs -> [at : H2Places, conn : H2Reqs \cup {NoConn}]]
  /\ open \subseteq H2Reqs
  /\ users \in [H2Reqs -> SUBSET H2Reqs]

LiveOrNoted(r, c) == c \in open \/ r \in users[c]

HoldersInv ==
  \A r \in H2Reqs :
    /\ h2[r].conn # NoConn => LiveOrNoted(r, h2[r].conn)
    /\ h2[r].at = "insert" => LiveOrNoted(r, r)
    /\ h2[r].at = "connect" => h2[r].conn = NoConn
    /\ h2[r].at \in {"new", "read", "check"} => h2[r].conn = NoConn
    /\ h2[r].at \in {"given", "queued", "sent"} => h2[r].conn # NoConn

H2Inv == H2Types /\ HoldersInv /\ FailsOnRaceOnly

LEMMA H2InitInv == H2Init => H2Inv
BY DEF H2Init, H2Inv, H2Types, H2Places, HoldersInv, FailsOnRaceOnly

\* A request that moves on with the connection it has keeps the invariant.
LEMMA GoesKeeps ==
  ASSUME H2Inv, NEW r \in H2Reqs, NEW place \in H2Places, Goes(r, place),
         UNCHANGED users, open' = open \/ open' = open \cup {r},
         place = "insert" => LiveOrNoted(r, r)',
         place \in {"new", "read", "check", "connect"} => h2[r].conn = NoConn,
         place \in {"given", "queued", "sent"} => h2[r].conn # NoConn,
         place = "failed" /\ h2[r].conn # NoConn => r \in users[h2[r].conn]
  PROVE  H2Inv'
<1>1. h2' \in [H2Reqs -> [at : H2Places, conn : H2Reqs \cup {NoConn}]] /\ h2'[r].at = place
      /\ \A q \in H2Reqs : h2'[q].conn = h2[q].conn /\ (q # r => h2'[q] = h2[q])
  BY DEF H2Inv, H2Types, Goes
<1>2. H2Types'
  BY <1>1 DEF H2Inv, H2Types
<1>3. ASSUME NEW q \in H2Reqs, NEW c, LiveOrNoted(q, c) PROVE LiveOrNoted(q, c)'
  BY <1>3 DEF LiveOrNoted
<1>4. HoldersInv'
  BY <1>1, <1>3 DEF H2Inv, HoldersInv
<1>5. FailsOnRaceOnly'
  BY <1>1 DEF H2Inv, FailsOnRaceOnly
<1> QED BY <1>2, <1>4, <1>5 DEF H2Inv

\* A request that is given a connection keeps it too.
LEMMA GivenKeeps ==
  ASSUME H2Inv, NEW r \in H2Reqs, NEW c \in H2Reqs, Given(r, c), LiveOrNoted(r, c),
         UNCHANGED <<open, users>>
  PROVE  H2Inv'
<1>1. h2' \in [H2Reqs -> [at : H2Places, conn : H2Reqs \cup {NoConn}]]
      /\ h2'[r].at = "given" /\ h2'[r].conn = c
      /\ \A q \in H2Reqs : q # r => h2'[q] = h2[q]
  BY Zenon DEF H2Inv, H2Types, Given, H2Places
<1>2. H2Types'
  BY <1>1 DEF H2Inv, H2Types
<1>3. ASSUME NEW q \in H2Reqs, NEW d, LiveOrNoted(q, d) PROVE LiveOrNoted(q, d)'
  BY <1>3 DEF LiveOrNoted
<1>4. HoldersInv'
  BY <1>1, <1>3, H2Config DEF H2Inv, HoldersInv
<1>5. FailsOnRaceOnly'
  BY <1>1 DEF H2Inv, FailsOnRaceOnly
<1> QED BY <1>2, <1>4, <1>5 DEF H2Inv

\* A connection dies: everyone who has it is noted.
LEMMA DieKeeps ==
  ASSUME H2Inv, NEW c \in H2Reqs, Die(c) PROVE H2Inv'
<1>1. H2Types'
  BY DEF H2Inv, H2Types, Die
<1>2. \A d \in H2Reqs : users'[d] = IF d = c THEN {r \in H2Reqs : h2[r].conn = c} \cup {c} ELSE users[d]
  BY DEF H2Inv, H2Types, Die
<1>3. h2' = h2 /\ open' = open \ {c}
  BY DEF Die
<1>4. ASSUME NEW r \in H2Reqs PROVE h2[r].conn # NoConn => LiveOrNoted(r, h2[r].conn)'
  BY <1>2, <1>3, ZenonT(40) DEF H2Inv, H2Types, HoldersInv, LiveOrNoted
<1>5. ASSUME NEW r \in H2Reqs PROVE h2[r].at = "insert" => LiveOrNoted(r, r)'
  BY <1>2, <1>3, Zenon DEF H2Inv, HoldersInv, LiveOrNoted
<1>6. HoldersInv'
  BY <1>3, <1>4, <1>5 DEF H2Inv, HoldersInv
<1>7. ASSUME NEW r \in H2Reqs, h2[r].at = "failed", h2[r].conn # NoConn
      PROVE  r \in users'[h2[r].conn]
  <2>1. h2[r].conn \in H2Reqs /\ r \in users[h2[r].conn]
    BY <1>7 DEF H2Inv, H2Types, FailsOnRaceOnly
  <2> QED BY <1>2, <2>1, Zenon
<1> QED BY <1>1, <1>3, <1>6, <1>7 DEF H2Inv, FailsOnRaceOnly

LEMMA H2StepInv == H2Inv /\ [H2Next]_h2Vars => H2Inv'
<1> SUFFICES ASSUME H2Inv, [H2Next]_h2Vars PROVE H2Inv'
  OBVIOUS
<1>0. ASSUME NEW r \in H2Reqs
      PROVE  /\ h2[r].conn \in H2Reqs \cup {NoConn}
             /\ h2[r].conn # NoConn => LiveOrNoted(r, h2[r].conn)
             /\ h2[r].at = "insert" => LiveOrNoted(r, r)
             /\ h2[r].at \in {"new", "read", "check", "connect"} => h2[r].conn = NoConn
             /\ h2[r].at \in {"given", "queued", "sent"} => h2[r].conn # NoConn
  BY DEF H2Inv, H2Types, HoldersInv
<1>1. ASSUME NEW r \in H2Reqs, LockRead(r) PROVE H2Inv'
  BY <1>0, <1>1, GoesKeeps DEF LockRead, H2Places
<1>2. ASSUME NEW r \in H2Reqs, LookUp(r) PROVE H2Inv'
  <2>1. Goes(r, "connect") \/ Goes(r, "check")
    BY <1>2 DEF LookUp
  <2> QED BY <1>0, <1>2, <2>1, GoesKeeps DEF LookUp, H2Places
<1>3. ASSUME NEW r \in H2Reqs, IsReady(r) PROVE H2Inv'
  <2>1. CASE InMap(r) \in open
    BY <1>3, <2>1, GivenKeeps DEF IsReady, LiveOrNoted, H2Inv, H2Types
  <2>2. CASE InMap(r) \notin open
    BY <1>0, <1>3, <2>2, GoesKeeps DEF IsReady, H2Places
  <2> QED BY <2>1, <2>2
<1>4. ASSUME NEW r \in H2Reqs, CreateConnection(r) PROVE H2Inv'
  <2>1. CASE Goes(r, "failed") /\ UNCHANGED <<rw, open>>
    BY <1>0, <1>4, <2>1, GoesKeeps DEF CreateConnection, H2Places
  <2>2. CASE open' = open \cup {r} /\ Goes(r, "insert")
    <3>1. LiveOrNoted(r, r)'
      BY <2>2 DEF LiveOrNoted
    <3> QED BY <1>0, <1>4, <2>2, <3>1, GoesKeeps DEF CreateConnection, H2Places
  <2> QED BY <1>4, <2>1, <2>2 DEF CreateConnection
<1>5. ASSUME NEW r \in H2Reqs, Insert(r) PROVE H2Inv'
  BY <1>0, <1>5, GivenKeeps DEF Insert
<1>6. ASSUME NEW r \in H2Reqs, LockSender(r) PROVE H2Inv'
  BY <1>0, <1>6, GoesKeeps DEF LockSender, H2Places
<1>7. ASSUME NEW r \in H2Reqs, SendOn(r) PROVE H2Inv'
  <2>1. CASE h2[r].conn \in open
    BY <1>0, <1>7, <2>1, GoesKeeps DEF SendOn, H2Places
  <2>2. CASE h2[r].conn \notin open
    BY <1>0, <1>7, <2>2, GoesKeeps DEF SendOn, H2Places, LiveOrNoted
  <2> QED BY <2>1, <2>2
<1>8. ASSUME NEW r \in H2Reqs, RespondOn(r) PROVE H2Inv'
  <2>1. CASE h2[r].conn \in open
    BY <1>0, <1>8, <2>1, GoesKeeps DEF RespondOn, H2Places
  <2>2. CASE h2[r].conn \notin open
    BY <1>0, <1>8, <2>2, GoesKeeps DEF RespondOn, H2Places, LiveOrNoted
  <2> QED BY <2>1, <2>2
<1>9. ASSUME NEW c \in H2Reqs, Die(c) PROVE H2Inv'
  BY <1>9, DieKeeps
<1>10. CASE UNCHANGED h2Vars
  BY <1>10 DEF h2Vars, H2Inv, H2Types, HoldersInv, LiveOrNoted, FailsOnRaceOnly
<1> QED
  BY <1>1, <1>2, <1>3, <1>4, <1>5, <1>6, <1>7, <1>8, <1>9, <1>10 DEF H2Next, H2Step

(***************************************************************************)
(* A request of the HTTP/2 pool fails on a dead connection only if it had  *)
(* been given the connection before it died, or had made it: for any       *)
(* number of requests and hosts, and any order of the two locks.           *)
(***************************************************************************)
THEOREM PoolHandsOutLive == H2Spec => []FailsOnRaceOnly
<1>1. H2Inv => FailsOnRaceOnly
  BY DEF H2Inv
<1> QED BY <1>1, H2InitInv, H2StepInv, PTL DEF H2Spec

-----------------------------------------------------------------------------
(* Config::validate.  What was made of the configuration is determined by  *)
(* it, so the invariant says what that is.                                 *)

ConfInv ==
  /\ conf \in Configs
  /\ made = << >> \/ made = <<[ok |-> FALSE]>>
     \/ /\ ValidateConfig
        /\ made = <<[ok |-> TRUE, balancer |-> BalancerOf(conf.service), mws |-> Resolve(conf.route.mws)]>>

\* A router of an accepted configuration has a service with servers, two of
\* them if it is weighted, and runs the middlewares it names by their exact
\* keys (Config::validate, ServiceManager::new, MiddlewareRegistry::resolve).
THEOREM AcceptedRuns == ConfSpec => []AcceptedCanRun
<1>1. ConfInit => ConfInv
  BY DEF ConfInit, ConfInv
<1>2. ConfInv /\ [ConfNext]_confVars => ConfInv'
  <2> SUFFICES ASSUME ConfInv, [ConfNext]_confVars PROVE ConfInv'
    OBVIOUS
  <2>1. conf' = conf
    BY DEF ConfNext, LoadConf, confVars
  <2>2. (ValidateConfig <=> ValidateConfig') /\ Resolve(conf.route.mws)' = Resolve(conf.route.mws)
        /\ BalancerOf(conf.service)' = BalancerOf(conf.service)
    BY <2>1 DEF ValidateConfig, Resolve, Defined
  <2>3. CASE LoadConf
    <3>1. CASE ValidateConfig
      BY <2>1, <2>2, <2>3, <3>1, Zenon DEF LoadConf, ConfInv
    <3>2. CASE ~ValidateConfig
      BY <2>1, <2>3, <3>2, Zenon DEF LoadConf, ConfInv
    <3> QED BY <3>1, <3>2
  <2>4. CASE UNCHANGED confVars
    BY <2>1, <2>2, <2>4 DEF confVars, ConfInv
  <2> QED BY <2>3, <2>4 DEF ConfNext
<1>3. ASSUME ConfInv, made # << >>, made[1].ok
      PROVE  /\ ValidateConfig /\ made[1].balancer = BalancerOf(conf.service)
             /\ made[1].mws = Resolve(conf.route.mws)
  BY <1>3 DEF ConfInv
<1>4. ConfInv => AcceptedHasServers
  <2> SUFFICES ASSUME ConfInv, made # << >>, made[1].ok PROVE AcceptedHasServers
    BY DEF AcceptedHasServers
  <2> DEFINE w == conf.service.weights
  <2>1. w \in Seq(Nat)
    BY ConfConfig DEF ConfInv, Configs, Lists
  <2>2. conf.route.service = Called /\ ServiceValid(conf.proto, conf.service)
    BY <1>3 DEF ValidateConfig
  <2>3. conf.service.kind = "loadBalancer" => w # << >> /\ made[1].balancer.size = Len(w)
    BY <1>3, <2>2 DEF ServiceValid, BalancerOf
  <2>4. made[1].balancer.strategy = "weighted" =>
          /\ made[1].balancer.size = Len(w) /\ \E i \in 1 .. Len(w) - 1 : w[i] # w[i + 1]
    BY <1>3 DEF BalancerOf, StrategyOf
  <2> HIDE DEF w
  <2>5. Len(w) \in Nat /\ (w # << >> => Len(w) > 0)
    BY <2>1
  <2> QED BY <2>2, <2>3, <2>4, <2>5 DEF AcceptedHasServers
<1>5. ConfInv => NamedIsRun
  <2> SUFFICES ASSUME ConfInv, made # << >>, made[1].ok, NEW k \in DOMAIN conf.route.mws,
                      conf.supported, ~conf.route.mws[k].provider
               PROVE  conf.route.mws[k] \in made[1].mws
    BY DEF NamedIsRun
  <2>1. Key(conf.route.mws[k]) \in Defined
    BY <1>3, Zenon DEF ValidateConfig, Key
  <2> QED BY <1>3, <2>1 DEF Resolve
<1> QED BY <1>1, <1>2, <1>4, <1>5, PTL DEF ConfSpec, AcceptedCanRun

-----------------------------------------------------------------------------
(* The circuit breaker                                                     *)

Quiet == {"idle", "sent"}

\* What a caller in the middle of an operation knows of the breaker when no
\* other call overlaps it: nothing has changed since it looked.
Knows(t) ==
  /\ pc[t] \in {"open", "compare", "half", "rejected", "stamp"} => state = "open"
  /\ pc[t] \in {"closed", "forget", "reset failures", "reset successes"} => state = "closed"
  /\ pc[t] \in {"clear", "probing", "close"} => state = "half"
  /\ pc[t] = "compare" => seen[t] = opened
  /\ pc[t] = "half" => opened = Timeout

CbInv ==
  /\ CbTypeOK
  /\ ~overlapped => /\ \A t, u \in Busy(pc) : t = u
                    /\ \A t \in Threads : Knows(t)

LEMMA CbInitInv == CbInit => CbInv
<1> SUFFICES ASSUME CbInit PROVE CbInv
  OBVIOUS
<1>1. CbTypeOK
  BY BreakerConfig DEF CbInit, CbTypeOK, Labels
<1>2. \A t \in Threads : pc[t] = "idle"
  BY DEF CbInit
<1> QED BY <1>1, <1>2, Zenon DEF CbInv, Busy, Knows

LEMMA AgedType == \A a \in 0 .. Timeout : Aged(a) \in 0 .. Timeout
BY BreakerConfig DEF Aged

LEMMA GotoType ==
  ASSUME NEW t \in Threads, NEW l \in Labels, pc \in [Threads -> Labels], Goto(t, l)
  PROVE  pc' \in [Threads -> Labels]
BY DEF Goto

\* Every step of a call goes somewhere.
LEMMA StepGoes ==
  ASSUME state \in {"closed", "open", "half"}, NEW t \in Threads, Step(t)
  PROVE  \E l \in Labels : Goto(t, l)
<1>1. CASE LoadState(t)
  <2>1. (IF state = "half" THEN "probing" ELSE state) \in Labels
    BY ZenonT(40) DEF Labels
  <2> QED BY <1>1, <2>1 DEF LoadState
<1>2. CASE Compare(t)
  <2>1. (IF seen[t] >= Timeout THEN "half" ELSE "rejected") \in Labels
    BY DEF Labels
  <2> QED BY <1>2, <2>1 DEF Compare
<1>3. CASE Closed(t)
  <2>1. {"sent", "idle", IF failures + 1 >= Threshold THEN "trip" ELSE "idle"} \subseteq Labels
    BY DEF Labels
  <2> QED BY <1>3, <2>1, ZenonT(30) DEF Closed
<1>4. CASE HalfOpen(t)
  <2>1. {"sent", "trip", IF successes + 1 >= Closing THEN "close" ELSE "idle"} \subseteq Labels
    BY DEF Labels
  <2> QED BY <1>4, <2>1, ZenonT(30) DEF HalfOpen
<1>5. CASE LoadOpenedAt(t) \/ StoreHalfOpen(t) \/ ClearSuccesses(t) \/ Open(t)
  <2>1. {"compare", "clear", "probing", "idle"} \subseteq Labels
    BY DEF Labels
  <2> QED BY <1>5, <2>1, ZenonT(30) DEF LoadOpenedAt, StoreHalfOpen, ClearSuccesses, Open
<1>6. CASE StoreClosed(t) \/ StoreFailures(t) \/ StoreOpen(t) \/ StoreOpenedAt(t)
  <2>1. {"forget", "idle", "stamp"} \subseteq Labels
    BY DEF Labels
  <2> QED BY <1>6, <2>1, ZenonT(30) DEF StoreClosed, StoreFailures, StoreOpen, StoreOpenedAt
<1>7. CASE ResetFailures(t) \/ ResetSuccesses(t)
  <2>1. {"reset successes", "idle"} \subseteq Labels
    BY DEF Labels
  <2> QED BY <1>7, <2>1, ZenonT(30) DEF ResetFailures, ResetSuccesses
<1> QED BY <1>1, <1>2, <1>3, <1>4, <1>5, <1>6, <1>7 DEF Step

\* A step keeps the types.
LEMMA CbTypeInv == CbTypeOK /\ CbNext => CbTypeOK'
<1> SUFFICES ASSUME CbTypeOK, CbNext PROVE CbTypeOK'
  OBVIOUS
<1>0. /\ state \in {"closed", "open", "half"} /\ failures \in Nat /\ successes \in Nat
      /\ opened \in 0 .. Timeout /\ pc \in [Threads -> Labels]
      /\ op \in [Threads -> {"allow", "success", "failure"}]
      /\ seen \in [Threads -> 0 .. Timeout] /\ reported \in 0 .. MaxFails
  BY DEF CbTypeOK
<1> USE BreakerConfig DEF CbTypeOK
<1>1. CASE CbTick
  BY <1>1, AgedType DEF CbTick
<1>2. ASSUME NEW t \in Threads, Call(t) PROVE CbTypeOK'
  <2>1. "load" \in Labels
    BY Zenon DEF Labels
  <2>2. Goto(t, "load")
    BY <1>2 DEF Call, AllowRequest, RecordSuccess, RecordFailure
  <2>3. pc' \in [Threads -> Labels]
    BY <2>1, <2>2, GotoType
  <2> QED BY <1>2, <2>3 DEF Call, AllowRequest, RecordSuccess, RecordFailure
<1>3. ASSUME NEW t \in Threads, Reset(t) PROVE CbTypeOK'
  <2>1. "reset failures" \in Labels
    BY Zenon DEF Labels
  <2>2. pc' \in [Threads -> Labels]
    BY <1>3, <2>1, GotoType, ZenonT(40) DEF Reset
  <2> QED BY <1>3, <2>2, Zenon DEF Reset
<1>4. ASSUME NEW t \in Threads, Step(t) PROVE CbTypeOK'
  <2>0. \E l \in Labels : Goto(t, l)
    BY ONLY <1>0, <1>4, StepGoes, ZenonT(30)
  <2>1. pc' \in [Threads -> Labels]
    BY <1>0, <2>0, GotoType
  <2>2. CASE LoadState(t) \/ LoadOpenedAt(t) \/ Compare(t) \/ StoreHalfOpen(t)
    BY <2>1, <2>2 DEF LoadState, LoadOpenedAt, Compare, StoreHalfOpen
  <2>3. CASE ClearSuccesses(t) \/ Closed(t) \/ HalfOpen(t) \/ Open(t)
    BY <2>1, <2>3 DEF ClearSuccesses, Closed, HalfOpen, Open
  <2>4. CASE StoreClosed(t) \/ StoreFailures(t) \/ StoreOpen(t) \/ StoreOpenedAt(t)
    BY <2>1, <2>4 DEF StoreClosed, StoreFailures, StoreOpen, StoreOpenedAt
  <2>5. CASE ResetFailures(t)
    BY <2>1, <2>5, Zenon DEF ResetFailures
  <2>6. CASE ResetSuccesses(t)
    BY <2>1, <2>6, ZenonT(40) DEF ResetSuccesses
  <2> QED BY <1>4, <2>2, <2>3, <2>4, <2>5, <2>6 DEF Step
<1> QED BY <1>1, <1>2, <1>3, <1>4 DEF CbNext

\* A caller that moves and ends the step alone was alone before it.
LEMMA MoverAlone ==
  ASSUME CbInv, NEW t \in Threads, NEW l, Goto(t, l), ~overlapped, l \notin Quiet \/ pc[t] \notin Quiet,
         \A u, v \in Busy(pc') : u = v
  PROVE  \A u \in Threads \ {t} : pc[u] \in Quiet /\ pc'[u] = pc[u]
<1>1. \A u \in Threads \ {t} : pc'[u] = pc[u]
  BY DEF Goto, CbInv, CbTypeOK
<1>2. pc'[t] = l
  BY DEF Goto, CbInv, CbTypeOK
<1>3. CASE l \notin Quiet
  BY <1>1, <1>2, <1>3 DEF Busy, Quiet
<1>4. CASE pc[t] \notin Quiet
  BY <1>1, <1>4 DEF Busy, Quiet, CbInv
<1> QED BY <1>1, <1>3, <1>4

\* Who is between operations knows nothing that could be wrong.
LEMMA QuietKnows == ASSUME NEW t \in Threads, pc[t] \in Quiet PROVE Knows(t)
BY ZenonT(40) DEF Quiet, Knows

\* What the caller that moves knows after each step of its own.
LEMMA MoverKnows ==
  ASSUME CbInv, NEW t \in Threads, Call(t) \/ Reset(t) \/ Step(t), Knows(t)
  PROVE  Knows(t)'
<1>0. /\ state \in {"closed", "open", "half"} /\ opened \in 0 .. Timeout /\ Timeout \in Nat
      /\ pc \in [Threads -> Labels] /\ seen \in [Threads -> 0 .. Timeout]
  BY BreakerConfig DEF CbInv, CbTypeOK
<1> USE <1>0 DEF Knows, Goto
<1>1. CASE Call(t)
  BY <1>1, Zenon DEF Call, AllowRequest, RecordSuccess, RecordFailure
<1>2. CASE Reset(t)
  BY <1>2, Zenon DEF Reset
<1>3. CASE LoadState(t)
  BY <1>3, Zenon DEF LoadState
<1>4. CASE LoadOpenedAt(t)
  BY <1>4 DEF LoadOpenedAt
<1>5. CASE Compare(t)
  BY <1>5 DEF Compare
<1>6. CASE StoreHalfOpen(t) \/ ClearSuccesses(t) \/ Open(t)
  BY <1>6, Zenon DEF StoreHalfOpen, ClearSuccesses, Open
<1>7. CASE Closed(t)
  BY <1>7 DEF Closed
<1>8. CASE HalfOpen(t)
  BY <1>8, Zenon DEF HalfOpen
<1>9. CASE StoreClosed(t) \/ StoreFailures(t)
  BY <1>9, Zenon DEF StoreClosed, StoreFailures
<1>10. CASE StoreOpen(t) \/ StoreOpenedAt(t)
  BY <1>10, Zenon DEF StoreOpen, StoreOpenedAt
<1>11. CASE ResetFailures(t) \/ ResetSuccesses(t)
  BY <1>11, ZenonT(40) DEF ResetFailures, ResetSuccesses
<1> QED
  BY <1>1, <1>2, <1>3, <1>4, <1>5, <1>6, <1>7, <1>8, <1>9, <1>10, <1>11, Zenon DEF Step

LEMMA TickKnows ==
  ASSUME CbInv, CbTick, NEW t \in Threads, Knows(t) PROVE Knows(t)'
<1>1. /\ opened \in 0 .. Timeout /\ seen[t] \in 0 .. Timeout /\ Timeout \in Nat
      /\ opened' = Aged(opened) /\ seen'[t] = Aged(seen[t])
      /\ state' = state /\ pc' = pc
  BY BreakerConfig DEF CbInv, CbTypeOK, CbTick
<1>2. pc[t] = "compare" => seen'[t] = opened'
  BY <1>1 DEF Knows
<1>3. pc[t] = "half" => opened' = Timeout
  BY <1>1 DEF Knows, Aged
<1> QED BY <1>1, <1>2, <1>3, Zenon DEF Knows

\* Every caller that moves goes somewhere, and is under way before or after.
LEMMA Moves ==
  ASSUME CbInv, NEW t \in Threads, Call(t) \/ Reset(t) \/ Step(t)
  PROVE  \E l \in Labels : Goto(t, l) /\ (l \notin Quiet \/ pc[t] \notin Quiet)
<1>1. CASE Call(t)
  <2>1. "load" \in Labels /\ "load" \notin Quiet
    BY DEF Labels, Quiet
  <2>2. Goto(t, "load")
    BY <1>1 DEF Call, AllowRequest, RecordSuccess, RecordFailure
  <2> QED BY <2>1, <2>2
<1>2. CASE Reset(t)
  <2>1. "reset failures" \in Labels /\ "reset failures" \notin Quiet
    BY DEF Labels, Quiet
  <2> QED BY <1>2, <2>1, ZenonT(30) DEF Reset
<1>3. CASE Step(t)
  <2>1. \E l \in Labels : Goto(t, l)
    BY <1>3, StepGoes DEF CbInv, CbTypeOK
  <2>2. pc[t] \notin Quiet
    BY <1>3, Zenon DEF Quiet, Step, LoadState, LoadOpenedAt, Compare, StoreHalfOpen,
       ClearSuccesses, Closed, HalfOpen, Open, StoreClosed, StoreFailures, StoreOpen,
       StoreOpenedAt, ResetFailures, ResetSuccesses
  <2> QED BY <2>1, <2>2
<1> QED BY <1>1, <1>2, <1>3

LEMMA CbNextInv == CbInv /\ [CbNext]_cbVars => CbInv'
<1> SUFFICES ASSUME CbInv, [CbNext]_cbVars PROVE CbInv'
  OBVIOUS
<1>1. CASE UNCHANGED cbVars
  BY <1>1, Zenon DEF cbVars, breakerVars, CbInv, CbTypeOK, Busy, Knows
<1>2. CASE CbNext
  <2>1. CbTypeOK'
    BY <1>2, CbTypeInv DEF CbInv
  <2>2. ASSUME ~overlapped'
        PROVE  (\A u, v \in Busy(pc') : u = v) /\ \A u \in Threads : Knows(u)'
    <3>1. \A u, v \in Busy(pc') : u = v
      BY <1>2, <2>2 DEF CbNext
    <3>2. CASE Busy(pc') = {}
      <4>1. \A u \in Threads : pc'[u] \in Quiet
        BY <3>2 DEF Busy, Quiet
      <4> QED BY <3>1, <4>1, Zenon DEF Knows, Quiet
    <3>3. CASE ~overlapped
      <4>1. \A u \in Threads : Knows(u)
        BY <3>3 DEF CbInv
      <4>2. CASE CbTick
        BY <3>1, <4>1, <4>2, TickKnows
      <4>3. ASSUME NEW t \in Threads, Call(t) \/ Reset(t) \/ Step(t)
            PROVE  \A u \in Threads : Knows(u)'
        <5>1. PICK l \in Labels : Goto(t, l) /\ (l \notin Quiet \/ pc[t] \notin Quiet)
          BY <4>3, Moves
        <5>2. \A u \in Threads \ {t} : pc[u] \in Quiet /\ pc'[u] = pc[u]
          BY <3>1, <3>3, <5>1, MoverAlone
        <5>3. \A u \in Threads \ {t} : Knows(u)'
          BY <5>2, Zenon DEF Knows, Quiet
        <5>4. Knows(t)'
          BY <4>1, <4>3, MoverKnows
        <5> QED BY <5>3, <5>4
      <4> QED BY <1>2, <3>1, <4>2, <4>3 DEF CbNext
    <3> QED BY <1>2, <2>2, <3>2, <3>3 DEF CbNext
  <2> QED BY <2>1, <2>2 DEF CbInv
<1> QED BY <1>1, <1>2

-----------------------------------------------------------------------------
(* The refinement *)

AtAny(at, ls) == \E t \in Threads : at[t] \in ls

\* Where only caller t can be under way, it alone decides who is where.
LEMMA OnlyOne ==
  ASSUME NEW at, NEW t \in Threads, \A u \in Threads \ {t} : at[u] \in Quiet,
         NEW ls, ls \cap Quiet = {}
  PROVE  AtAny(at, ls) <=> at[t] \in ls
BY DEF AtAny

\* What the mapping of the refinement looks at, given where caller t is.
Places(at, t) ==
  /\ AtAny(at, {"trip"}) <=> at[t] = "trip"
  /\ AtAny(at, {"close"}) <=> at[t] = "close"
  /\ AtAny(at, {"close", "forget", "reset failures"})
       <=> at[t] \in {"close", "forget", "reset failures"}
  /\ AtAny(at, {"clear", "reset failures", "reset successes"})
       <=> at[t] \in {"clear", "reset failures", "reset successes"}
  /\ AtAny(at, {"trip", "stamp"}) <=> at[t] \in {"trip", "stamp"}

LEMMA OnlyOnePlaces ==
  ASSUME NEW at, NEW t \in Threads, \A u \in Threads \ {t} : at[u] \in Quiet
  PROVE  Places(at, t)
<1>1. /\ {"trip"} \cap Quiet = {} /\ {"close"} \cap Quiet = {}
      /\ {"close", "forget", "reset failures"} \cap Quiet = {}
      /\ {"clear", "reset failures", "reset successes"} \cap Quiet = {}
      /\ {"trip", "stamp"} \cap Quiet = {}
  BY DEF Quiet
<1>2. /\ AtAny(at, {"trip"}) <=> at[t] \in {"trip"}
      /\ AtAny(at, {"close"}) <=> at[t] \in {"close"}
  BY <1>1, OnlyOne, ZenonT(40)
<1> QED BY <1>1, <1>2, OnlyOne, Zenon DEF Places

\* Who is where, for the mapping before and after a step of caller t.
Seen(t) ==
  /\ SomeAt({"trip"}) <=> pc[t] = "trip"
  /\ SomeAt({"close"}) <=> pc[t] = "close"
  /\ SomeAt({"close", "forget", "reset failures"})
       <=> pc[t] \in {"close", "forget", "reset failures"}
  /\ SomeAt({"clear", "reset failures", "reset successes"})
       <=> pc[t] \in {"clear", "reset failures", "reset successes"}
  /\ SomeAt({"trip", "stamp"}) <=> pc[t] \in {"trip", "stamp"}

\* A step of a call that no other overlaps is a step of the breaker or none.
LEMMA CallRefines ==
  ASSUME CbInv, NEW t \in Threads, Call(t) \/ Reset(t) \/ Step(t), Knows(t),
         Seen(t), Seen(t)'
  PROVE  [Abstract!BNext]_(Abstract!bvars)
<1>0. /\ state \in {"closed", "open", "half"} /\ failures \in Nat /\ successes \in Nat
      /\ pc \in [Threads -> Labels] /\ Threshold \in Nat
  BY BreakerConfig DEF CbInv, CbTypeOK
<1> USE <1>0 DEF Seen, Knows, Goto
<1>1. CASE Call(t)
  <2>1. UNCHANGED Abstract!bvars
    BY <1>1, ZenonT(40) DEF Call, AllowRequest, RecordSuccess, RecordFailure, Abstract!bvars
  <2> QED BY <2>1, ZenonT(40)
<1>2. CASE Reset(t)
  <2>1. Abstract!BReset
    BY <1>2, ZenonT(40) DEF Reset, Abstract!BReset
  <2> QED BY <2>1, ZenonT(40) DEF Abstract!BNext
<1>3. CASE LoadState(t) \/ LoadOpenedAt(t) \/ Compare(t) \/ ClearSuccesses(t) \/ Open(t)
  <2>1. UNCHANGED Abstract!bvars
    BY <1>3, ZenonT(40) DEF LoadState, LoadOpenedAt, Compare, ClearSuccesses, Open, Abstract!bvars
  <2> QED BY <2>1, Zenon
<1>4. CASE StoreHalfOpen(t)
  <2>1. Abstract!BRecover
    BY <1>4, ZenonT(40) DEF StoreHalfOpen, Abstract!BRecover
  <2> QED BY <2>1, ZenonT(40) DEF Abstract!BNext
<1>5. CASE Closed(t)
  <2>1. CASE op[t] = "allow"
    <3>1. UNCHANGED Abstract!bvars
      BY <1>5, <2>1, ZenonT(40) DEF Closed, Abstract!bvars
    <3> QED BY <3>1, Zenon
  <2>2. CASE op[t] = "success"
    <3>1. Abstract!BSuccess
      BY <1>5, <2>2, ZenonT(40) DEF Closed, Abstract!BSuccess
    <3> QED BY <3>1, ZenonT(40) DEF Abstract!BNext
  <2>3. CASE op[t] = "failure"
    <3>1. Abstract!BFailure
      BY <1>5, <2>3, ZenonT(40) DEF Closed, Abstract!BFailure, Abstract!BOpen
    <3> QED BY <3>1, ZenonT(40) DEF Abstract!BNext
  <2> QED BY <1>5, <2>1, <2>2, <2>3, ZenonT(40) DEF Closed
<1>6. CASE HalfOpen(t)
  <2>1. CASE op[t] = "allow"
    <3>1. UNCHANGED Abstract!bvars
      BY <1>6, <2>1, ZenonT(40) DEF HalfOpen, Abstract!bvars
    <3> QED BY <3>1, Zenon
  <2>2. CASE op[t] = "success"
    <3>1. Abstract!BSuccess
      BY <1>6, <2>2, ZenonT(40) DEF HalfOpen, Abstract!BSuccess, Closing
    <3> QED BY <3>1, Zenon DEF Abstract!BNext
  <2>3. CASE op[t] = "failure"
    <3>1. Abstract!BFailure
      BY <1>6, <2>3, ZenonT(40) DEF HalfOpen, Abstract!BFailure, Abstract!BOpen
    <3> QED BY <3>1, Zenon DEF Abstract!BNext
  <2> QED BY <1>6, <2>1, <2>2, <2>3, ZenonT(40) DEF HalfOpen
<1>7. CASE StoreClosed(t) \/ StoreFailures(t) \/ StoreOpen(t) \/ StoreOpenedAt(t)
  <2>1. UNCHANGED Abstract!bvars
    BY <1>7, ZenonT(40) DEF StoreClosed, StoreFailures, StoreOpen, StoreOpenedAt, Abstract!bvars
  <2> QED BY <2>1, Zenon
<1>8. CASE ResetFailures(t) \/ ResetSuccesses(t)
  <2>1. UNCHANGED Abstract!bvars
    BY <1>8, Zenon DEF ResetFailures, ResetSuccesses, Abstract!bvars
  <2> QED BY <2>1, Zenon
<1> QED BY <1>1, <1>2, <1>3, <1>4, <1>5, <1>6, <1>7, <1>8, Zenon DEF Step

LEMMA TickRefines ==
  ASSUME CbInv, CbTick PROVE [Abstract!BNext]_(Abstract!bvars)
<1>1. /\ opened \in 0 .. Timeout /\ Timeout \in Nat /\ opened' = Aged(opened)
      /\ UNCHANGED <<state, failures, successes, pc>>
  BY BreakerConfig DEF CbInv, CbTypeOK, CbTick
<1>2. \A ls : SomeAt(ls)' <=> SomeAt(ls)
  BY <1>1 DEF SomeAt
<1>3. CASE ~SomeAt({"trip", "stamp"}) /\ opened < Timeout
  <2>1. Abstract!BTick
    BY <1>1, <1>2, <1>3, Zenon DEF Aged, Abstract!BTick
  <2> QED BY <2>1 DEF Abstract!BNext
<1>4. CASE SomeAt({"trip", "stamp"})
  <2>1. UNCHANGED Abstract!bvars
    BY <1>1, <1>2, <1>4, Zenon DEF Abstract!bvars
  <2> QED BY <2>1
<1>5. CASE opened = Timeout
  <2>1. opened' = opened
    BY <1>1, <1>5 DEF Aged
  <2>2. UNCHANGED Abstract!bvars
    BY <1>1, <1>2, <2>1, Zenon DEF Abstract!bvars
  <2> QED BY <2>2
<1> QED BY <1>1, <1>3, <1>4, <1>5

\* The sequences of atomic operations implement the breaker whose operations
\* are single steps, as long as no call overlaps another (CircuitBreaker's
\* state, record_success, record_failure and reset).
THEOREM BreakerImplements == CbSpec => Implements
<1>1. CbInit => Abstract!BInit
  BY DEF CbInit, Abstract!BInit, SomeAt
<1>2. ASSUME CbInv, CbNext
      PROVE  overlapped \/ overlapped' \/ [Abstract!BNext]_(Abstract!bvars)
  <2> SUFFICES ASSUME ~overlapped, ~overlapped' PROVE [Abstract!BNext]_(Abstract!bvars)
    OBVIOUS
  <2>0. \A u \in Threads : Knows(u)
    BY <1>2 DEF CbInv
  <2>1. \A u, v \in Busy(pc') : u = v
    BY <1>2 DEF CbNext
  <2>2. ASSUME NEW t \in Threads, Call(t) \/ Reset(t) \/ Step(t)
        PROVE  [Abstract!BNext]_(Abstract!bvars)
    <3>1. PICK l \in Labels : Goto(t, l) /\ (l \notin Quiet \/ pc[t] \notin Quiet)
      BY <1>2, <2>2, Moves
    <3>2. \A u \in Threads \ {t} : pc[u] \in Quiet /\ pc'[u] = pc[u]
      BY <1>2, <2>1, <3>1, MoverAlone
    <3>3. Places(pc, t) /\ Places(pc', t)
      BY <3>2, OnlyOnePlaces
    <3>4. Seen(t) /\ Seen(t)'
      BY <3>3, Zenon DEF Places, Seen, AtAny, SomeAt
    <3> QED BY <1>2, <2>0, <2>2, <3>4, CallRefines
  <2> QED BY <1>2, <2>2, TickRefines DEF CbNext
<1>3. CbInv /\ [CbNext]_cbVars
        => [overlapped \/ overlapped' \/ [Abstract!BNext]_(Abstract!bvars)]_cbVars
  BY <1>2
<1> QED BY <1>1, <1>3, CbInitInv, CbNextInv, PTL DEF CbSpec, Implements

=============================================================================
