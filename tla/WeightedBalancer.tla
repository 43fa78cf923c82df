-------------------------- MODULE WeightedBalancer --------------------------
(***************************************************************************)
(* The weighted balancer of balancer/weighted.rs, which LoadBalancer       *)
(* chooses when the servers of a service differ in weight.  Handlers pick  *)
(* servers (smooth weighted round-robin over shared atomics) while other   *)
(* handlers mark servers up and down and recompute the cached total.       *)
(* The effective weight of a server is its configured weight: nothing else *)
(* is ever stored there.  Loading a server's health and adding its weight  *)
(* are one step, because the addition commutes with a change of the flag.  *)
(***************************************************************************)
EXTENDS Integers, Sequences, FiniteSets, FiniteSetsExt

CONSTANTS
  Weights,   \* configured weights, by position in the server list
  Pickers,   \* callers of next_server
  Markers,   \* callers of mark_healthy and mark_unhealthy
  MaxMarks,  \* bound on health changes
  MaxOverlap \* bound on the picks begun while a change is in progress

Servers == 1..Len(Weights)
N == Len(Weights)

ASSUME WeightedConfig ==
  /\ Weights \in Seq(Nat) /\ N > 0
  /\ MaxMarks \in Nat /\ MaxOverlap \in Nat

VARIABLES
  healthy,  \* healthy flag of each server
  cur,      \* current_weight of each server
  total,    \* cached_total_weight
  pick,     \* where each picker is
  mark,     \* where each marker is
  last,     \* the server picked last, 0 before the first pick
  marks,    \* health changes so far
  overlap   \* picks begun so far while a change was in progress

wbVars == <<healthy, cur, total, pick, mark, last, marks, overlap>>

SumWeights(S) == MapThenSumSet(LAMBDA i : Weights[i], S)

TotalWeight == SumWeights(Servers)

Idle == [pc |-> "idle"]

Resting == \A p \in Pickers : pick[p] = Idle
Settled == \A m \in Markers : mark[m] = Idle

WbInit ==
  /\ healthy = [i \in Servers |-> TRUE]
  /\ cur = [i \in Servers |-> 0]
  /\ total = TotalWeight
  /\ pick = [p \in Pickers |-> Idle]
  /\ mark = [m \in Markers |-> Idle]
  /\ last = 0
  /\ marks = 0
  /\ overlap = 0

-----------------------------------------------------------------------------
\* Mutated forms of the operations below.

VisitLast(p) ==
  /\ pick[p].pc = "scan"
  /\ LET q == pick[p]
         w == cur[q.i] + Weights[q.i]
     IN  IF healthy[q.i]
         THEN /\ cur' = [cur EXCEPT ![q.i] = w]
              /\ pick' = [pick EXCEPT ![p] =
                   [pc |-> IF q.i = N THEN "take" ELSE "scan", total |-> q.total,
                    i |-> q.i + 1, best |-> q.i, weight |-> w]]
         ELSE /\ pick' = [pick EXCEPT ![p].i = @ + 1,
                                      ![p].pc = IF q.i = N THEN "take" ELSE "scan"]
              /\ UNCHANGED cur
  /\ UNCHANGED <<healthy, total, mark, last, marks, overlap>>

-----------------------------------------------------------------------------
\* next_server, first line: a cached total of zero sends the request to the
\* first server without looking at any flag.
LoadTotal(p) ==
  /\ pick[p].pc = "idle"
  /\ IF total = 0
     THEN last' = 1 /\ UNCHANGED pick
     ELSE /\ pick' = [pick EXCEPT ![p] =
               [pc |-> "scan", total |-> total, i |-> 1, best |-> 0, weight |-> 0]]
          /\ UNCHANGED last
  /\ \/ Settled /\ UNCHANGED overlap
     \/ ~Settled /\ overlap < MaxOverlap /\ overlap' = overlap + 1
  /\ UNCHANGED <<healthy, cur, total, mark, marks>>

\* One iteration of its loop: a healthy server gains its weight and is the best
\* so far if it is the first or strictly heavier.
Visit(p) ==
  /\ pick[p].pc = "scan"
  /\ LET q == pick[p]
         w == cur[q.i] + Weights[q.i]
         better == healthy[q.i] /\ (q.best = 0 \/ w > q.weight)
     IN  /\ cur' = IF healthy[q.i] THEN [cur EXCEPT ![q.i] = w] ELSE cur
         /\ pick' = [pick EXCEPT ![p] =
              [pc |-> IF q.i = N THEN "take" ELSE "scan",
               total |-> q.total,
               i |-> q.i + 1,
               best |-> IF better THEN q.i ELSE q.best,
               weight |-> IF better THEN w ELSE q.weight]]
  /\ UNCHANGED <<healthy, total, mark, last, marks, overlap>>

\* The best server pays the total loaded at the start; without one the first
\* server is returned.
Take(p) ==
  /\ pick[p].pc = "take"
  /\ LET q == pick[p] IN
       /\ cur' = IF q.best = 0 THEN cur ELSE [cur EXCEPT ![q.best] = @ - q.total]
       /\ last' = IF q.best = 0 THEN 1 ELSE q.best
  /\ pick' = [pick EXCEPT ![p] = Idle]
  /\ UNCHANGED <<healthy, total, mark, marks, overlap>>

\* mark_healthy and mark_unhealthy store the flag, then recompute the total ...
Mark(m, i, up) ==
  /\ mark[m].pc = "idle" /\ marks < MaxMarks
  /\ healthy' = [healthy EXCEPT ![i] = up]
  /\ mark' = [mark EXCEPT ![m] = [pc |-> "sum", i |-> 1, sum |-> 0]]
  /\ marks' = marks + 1
  /\ UNCHANGED <<cur, total, pick, last, overlap>>

\* ... reading the flags one by one ...
Sum(m) ==
  /\ mark[m].pc = "sum" /\ mark[m].i =< N
  /\ LET i == mark[m].i IN
       mark' = [mark EXCEPT ![m].i = @ + 1,
                            ![m].sum = @ + IF healthy[i] THEN Weights[i] ELSE 0]
  /\ UNCHANGED <<healthy, cur, total, pick, last, marks, overlap>>

\* ... and storing what they add up to.
StoreTotal(m) ==
  /\ mark[m].pc = "sum" /\ mark[m].i > N
  /\ total' = mark[m].sum
  /\ mark' = [mark EXCEPT ![m] = Idle]
  /\ UNCHANGED <<healthy, cur, pick, last, marks, overlap>>

PickerStep(p) == LoadTotal(p) \/ Visit(p) \/ Take(p)

MarkerStep(m) == Sum(m) \/ StoreTotal(m)

WbNext ==
  \/ \E p \in Pickers : PickerStep(p)
  \/ \E m \in Markers : MarkerStep(m) \/ \E i \in Servers, up \in BOOLEAN : Mark(m, i, up)

WbSpec == WbInit /\ [][WbNext]_wbVars

\* Requests keep coming and a handler that has begun to mark finishes.
WbFairSpec ==
  /\ WbSpec
  /\ \A p \in Pickers : WF_wbVars(PickerStep(p))
  /\ \A m \in Markers : WF_wbVars(MarkerStep(m))

-----------------------------------------------------------------------------

\* While no server changes its health, the picks of concurrent callers stay in
\* proportion to the weights: current_weight is the weight a server was given
\* minus what its picks have cost, and when nobody is picking it is less than
\* one total per caller away from zero (weighted.rs:73-92).
FairShare ==
  marks = 0 /\ Resting =>
    \A i \in Servers :
      LET slack == Cardinality(Pickers) * TotalWeight
      IN  -slack < cur[i] /\ cur[i] < slack

\* When nobody is picking, the current weights add up to zero: no weight is lost
\* between the additions and the subtraction of overlapping picks.
Conserved ==
  marks = 0 /\ Resting =>
    MapThenSumSet(LAMBDA i : cur[i], Servers) = 0

\* One change of health at a time leaves the cached total equal to the weight of
\* the healthy servers once it is done, even though it re-reads every flag.
TotalExact ==
  Settled =>
    total = SumWeights({i \in Servers : healthy[i]})

\* While requests keep coming, a server of positive weight that stays healthy
\* keeps being picked, even after health changes during picks have left
\* current_weight out of balance.
NoStarvation ==
  \A i \in Servers :
    Weights[i] > 0 /\ <>[]healthy[i] /\ []<>~Resting => []<>(last = i)

\* The first server is returned without a look at its health only if all servers
\* have zero weight or are unhealthy (weighted.rs:65).
FirstOnlyIfNone ==
  Settled /\ total = 0 =>
    \A i \in Servers : healthy[i] => Weights[i] = 0

\* The balancer keeps to the weights: shares are fair and conserved while the
\* health of the servers stays, the cached total is exact after each change,
\* and no healthy server starves.
WeightsRespected == [](FairShare /\ Conserved /\ TotalExact) /\ NoStarvation
=============================================================================
