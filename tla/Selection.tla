----------------------------- MODULE Selection ------------------------------
(***************************************************************************)
(* The other ways of choosing: the least-connections and the random        *)
(* balancer (balancer/least_conn.rs, random.rs) and the smooth weighted    *)
(* choice between services (service/weighted.rs).  Every counter and flag  *)
(* is an atomic of its own, so a choice reads or changes one server at a   *)
(* time while other choices and health marks go on.                        *)
(***************************************************************************)
EXTENDS Integers, Sequences, Sums

CONSTANTS
  Weight,       \* the weights of the servers or services, a sequence
  NumCalls      \* how many callers choose at the same time

SelCalls == 1 .. NumCalls
Choice == DOMAIN Weight
Best0 == [i |-> 0, load |-> 0]   \* best_idx None, selected_idx before any is seen

ASSUME SelConfig == Weight \in Seq(Nat) /\ Len(Weight) >= 2 /\ NumCalls \in Nat

VARIABLES
  kind,     \* which of the three is being used
  ok,       \* healthy, of each server
  active,   \* active_connections
  share,    \* current_weights
  sel,      \* where each caller is: its place, the next server, its best so far
  marked    \* callers during whose choice a flag has changed

selVars == <<kind, ok, active, share, sel, marked>>

AllWeight == SumOver(Weight, 1, Len(Weight))
Place(at, i, best, pick) == [at |-> at, i |-> i, best |-> best, pick |-> pick]
SelIdle == Place("idle", 1, Best0, 0)

SelInit ==
  /\ kind \in {"least", "random", "split"}
  /\ ok = [i \in Choice |-> TRUE]
  /\ active = [i \in Choice |-> 0]
  /\ share = [i \in Choice |-> 0]
  /\ sel = [c \in SelCalls |-> SelIdle]
  /\ marked = {}

\* Weighted least connections: the load of a server as next_server computes it.
LoadOf(i) == IF Weight[i] > 0 THEN (active[i] * 100) \div Weight[i] ELSE active[i] * 100

ToNext(c, best) == sel' = [sel EXCEPT ![c] = Place("scan", sel[c].i + 1, best, 0)]
Chosen(c, i) == sel' = [sel EXCEPT ![c] = Place("chosen", 1, Best0, i)]
Looking(c) == sel[c].at \in {"idle", "scan"} /\ sel[c].i \in Choice
Scanned(c) == sel[c].at = "scan" /\ sel[c].i \notin Choice
Fresh0(c) == marked' = IF sel[c].at = "idle" THEN marked \ {c} ELSE marked

\* Mutant: the flag is not looked at.
LeastVisitAny(c) ==
  /\ kind = "least" /\ Looking(c) /\ Fresh0(c)
  /\ LET s == sel[c]
     IN  IF s.best.i = 0 \/ LoadOf(s.i) < s.best.load
         THEN ToNext(c, [i |-> s.i, load |-> LoadOf(s.i)]) ELSE ToNext(c, s.best)
  /\ UNCHANGED <<kind, ok, active, share>>

\* LeastConnBalancer::next_server, one server of its loop.
LeastVisit(c) ==
  /\ kind = "least" /\ Looking(c) /\ Fresh0(c)
  /\ LET s == sel[c]
     IN  IF ok[s.i] /\ (s.best.i = 0 \/ LoadOf(s.i) < s.best.load)
         THEN ToNext(c, [i |-> s.i, load |-> LoadOf(s.i)]) ELSE ToNext(c, s.best)
  /\ UNCHANGED <<kind, ok, active, share>>

LeastTake(c) ==
  /\ kind = "least" /\ Scanned(c)
  /\ Chosen(c, sel[c].best.i)
  /\ UNCHANGED <<kind, ok, active, share, marked>>

\* acquire when a request starts on the server, release when it is over.
AcquireConn(c) ==
  /\ kind = "least" /\ sel[c].at = "chosen" /\ sel[c].pick # 0
  /\ active' = [active EXCEPT ![sel[c].pick] = @ + 1]
  /\ sel' = [sel EXCEPT ![c] = Place("holding", 1, Best0, sel[c].pick)]
  /\ UNCHANGED <<kind, ok, share, marked>>

ReleaseConn(c) ==
  /\ kind = "least"
  /\ \/ sel[c].at = "holding"
     \/ sel[c].at = "chosen" /\ sel[c].pick = 0
  /\ active' = IF sel[c].pick = 0 THEN active ELSE [active EXCEPT ![sel[c].pick] = @ - 1]
  /\ sel' = [sel EXCEPT ![c] = SelIdle]
  /\ UNCHANGED <<kind, ok, share, marked>>

\* total_weight == 0: the weights are unsigned.
Weightless == \A i \in Choice : Weight[i] = 0

\* RandomBalancer::next_server adds up the weights of the healthy servers,
\* one flag at a time...
RandomSum(c) ==
  /\ kind = "random" /\ Looking(c) /\ Fresh0(c)
  /\ LET s == sel[c]
     IN  IF Weightless THEN Chosen(c, 1)
         ELSE ToNext(c, [i |-> 0, load |-> s.best.load + IF ok[s.i] THEN Weight[s.i] ELSE 0])
  /\ UNCHANGED <<kind, ok, active, share>>

\* ...draws a number below the sum...
RandomDraw(c) ==
  /\ kind = "random" /\ Scanned(c)
  /\ IF sel[c].best.load = 0 THEN Chosen(c, 1)
     ELSE \E r \in 0 .. sel[c].best.load - 1 :
            sel' = [sel EXCEPT ![c] = Place("walk", 1, [i |-> r, load |-> 0], 0)]
  /\ UNCHANGED <<kind, ok, active, share, marked>>

\* ...and walks to the server it falls on, reading the flags once more; past
\* the end it takes the first.
RandomWalk(c) ==
  /\ kind = "random" /\ sel[c].at = "walk"
  /\ LET s == sel[c]
         upTo == s.best.load + Weight[s.i]
     IN  IF s.i \notin Choice THEN Chosen(c, 1)
         ELSE IF ~ok[s.i] THEN sel' = [sel EXCEPT ![c] = Place("walk", s.i + 1, s.best, 0)]
         ELSE IF s.best.i < upTo THEN Chosen(c, s.i)
         ELSE sel' = [sel EXCEPT ![c] = Place("walk", s.i + 1, [i |-> s.best.i, load |-> upTo], 0)]
  /\ UNCHANGED <<kind, ok, active, share, marked>>

\* WeightedServiceRouter::next_service: each service gains its weight, the
\* highest is chosen and gives the total back.
SplitVisit(c) ==
  /\ kind = "split" /\ Looking(c)
  /\ LET s == sel[c]
         current == share[s.i] + Weight[s.i]
     IN  /\ share' = [share EXCEPT ![s.i] = current]
         /\ IF s.best.i = 0 \/ current > s.best.load
            THEN ToNext(c, [i |-> s.i, load |-> current]) ELSE ToNext(c, s.best)
  /\ UNCHANGED <<kind, ok, active, marked>>

\* Mutant: the chosen service gives its own weight back.
SplitTakeOwn(c) ==
  /\ kind = "split" /\ Scanned(c)
  /\ share' = [share EXCEPT ![sel[c].best.i] = @ - Weight[sel[c].best.i]]
  /\ Chosen(c, sel[c].best.i)
  /\ UNCHANGED <<kind, ok, active, marked>>

SplitTake(c) ==
  /\ kind = "split" /\ Scanned(c)
  /\ share' = [share EXCEPT ![sel[c].best.i] = @ - AllWeight]
  /\ Chosen(c, sel[c].best.i)
  /\ UNCHANGED <<kind, ok, active, marked>>

\* The caller uses what it was given and comes back.
SelAgain(c) ==
  /\ kind # "least" /\ sel[c].at = "chosen"
  /\ sel' = [sel EXCEPT ![c] = SelIdle]
  /\ UNCHANGED <<kind, ok, active, share, marked>>

\* mark_healthy and mark_unhealthy of either balancer.
SelMark(i) ==
  /\ kind # "split"
  /\ ok' = [ok EXCEPT ![i] = ~@]
  /\ marked' = marked \cup {c \in SelCalls : sel[c].at # "idle"}
  /\ UNCHANGED <<kind, active, share, sel>>

SelNext ==
  \/ \E c \in SelCalls :
       \/ LeastVisit(c) \/ LeastTake(c) \/ AcquireConn(c) \/ ReleaseConn(c)
       \/ RandomSum(c) \/ RandomDraw(c) \/ RandomWalk(c)
       \/ SplitVisit(c) \/ SplitTake(c) \/ SelAgain(c)
  \/ \E i \in Choice : SelMark(i)

SelSpec == SelInit /\ [][SelNext]_selVars

-----------------------------------------------------------------------------
(* Properties *)

\* A choice that no mark overlapped is a healthy server, unless there is
\* none: least connections then has no answer, and the random balancer, which
\* passes over servers of weight 0 too, falls back on the first.
QuietChoiceIsHealthy ==
  \A c \in SelCalls :
    kind # "split" /\ sel[c].at = "chosen" /\ c \notin marked =>
      \/ sel[c].pick # 0 /\ ok[sel[c].pick]
      \/ kind = "least" /\ sel[c].pick = 0 /\ \A i \in Choice : ~ok[i]
      \/ kind = "random" /\ sel[c].pick = 1 /\ \A i \in Choice : ok[i] => Weight[i] = 0

\* What a caller's choice has added to the current weights so far.
Added(c) == SumOver(Weight, 1, sel[c].i - 1)

\* What the choices under way have added is all that the current weights are
\* away from zero: a finished choice leaves their sum as it found it.
ShareConserved ==
  SumOver(share, 1, Len(Weight))
    = IF kind # "split" THEN 0 ELSE SumOver([c \in SelCalls |-> Added(c)], 1, NumCalls)
=============================================================================
