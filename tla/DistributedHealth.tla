-------------------------- MODULE DistributedHealth -------------------------
(***************************************************************************)
(* Health checks in a cluster, health/distributed.rs: the loop of each     *)
(* node for one server.  A node whose is_leader flag is up checks the      *)
(* server and writes its verdict to the store; the others read it there.   *)
(* The flag is LeaderElection's; here it goes up and down at will, also on *)
(* two nodes at once, as a lease that ended while its holder was checking. *)
(***************************************************************************)
EXTENDS Naturals

CONSTANTS
  Checkers,             \* nodes
  HealthyThreshold,     \* 2 in the code
  UnhealthyThreshold    \* 3 in the code

ASSUME ThresholdConfig ==
  HealthyThreshold \in Nat \ {0} /\ UnhealthyThreshold \in Nat \ {0}

VARIABLES
  leads,      \* is_leader of each node
  server,     \* whether a check of the server passes
  verdict,    \* the HealthStatus in the store, "none" when it expired
  check,      \* where each node's loop is: idle, checking, writing
  good,       \* local_consecutive_successes, up to its threshold
  bad,        \* local_consecutive_failures, up to its threshold
  view        \* current_health

healthVars == <<leads, server, verdict, check, good, bad, view>>

Name(healthy) == IF healthy THEN "healthy" ELSE "unhealthy"

HealthInit ==
  /\ leads = [n \in Checkers |-> FALSE] /\ server = TRUE
  /\ verdict = "none" /\ check = [n \in Checkers |-> "idle"]
  /\ good = [n \in Checkers |-> 0] /\ bad = [n \in Checkers |-> 0]
  /\ view = [n \in Checkers |-> TRUE]

\* A counter that is only compared with its threshold.
Count(c, max) == IF c < max THEN c + 1 ELSE c

-----------------------------------------------------------------------------
\* Mutated forms of the operations below.

FailedResets(n) ==
  /\ bad' = [bad EXCEPT ![n] = IF view[n] THEN 1 ELSE Count(@, UnhealthyThreshold)]
  /\ good' = [good EXCEPT ![n] = 0]
  /\ view' = [view EXCEPT ![n] = @ /\ bad'[n] < UnhealthyThreshold]

-----------------------------------------------------------------------------
\* A tick of a node that does not lead: health_get; no status is healthy, a
\* failed read keeps the view.
Follow(n) ==
  /\ check[n] = "idle" /\ ~leads[n]
  /\ \/ view' = [view EXCEPT ![n] = verdict # "unhealthy"]
     \/ UNCHANGED view
  /\ UNCHANGED <<leads, server, verdict, check, good, bad>>

\* A tick of the leader: the check is sent.
StartCheck(n) ==
  /\ check[n] = "idle" /\ leads[n]
  /\ check' = [check EXCEPT ![n] = "checking"]
  /\ UNCHANGED <<leads, server, verdict, good, bad, view>>

\* The match on a check that passed ...
Passed(n) ==
  /\ good' = [good EXCEPT ![n] = Count(@, HealthyThreshold)]
  /\ bad' = [bad EXCEPT ![n] = 0]
  /\ view' = [view EXCEPT ![n] = @ \/ good'[n] >= HealthyThreshold]

\* ... and on one that failed or timed out.
Failed(n) ==
  /\ bad' = [bad EXCEPT ![n] = Count(@, UnhealthyThreshold)]
  /\ good' = [good EXCEPT ![n] = 0]
  /\ view' = [view EXCEPT ![n] = @ /\ bad'[n] < UnhealthyThreshold]

\* The check ends; the lease may be over by now.
EndCheck(n) ==
  /\ check[n] = "checking"
  /\ IF server THEN Passed(n) ELSE Failed(n)
  /\ check' = [check EXCEPT ![n] = "writing"]
  /\ UNCHANGED <<leads, server, verdict>>

\* health_set, which may fail.
Write(n) ==
  /\ check[n] = "writing"
  /\ verdict' \in {verdict, Name(view[n])}
  /\ check' = [check EXCEPT ![n] = "idle"]
  /\ UNCHANGED <<leads, server, good, bad, view>>

\* Leadership and the server change; a status nobody refreshes expires.
Elect(n) ==
  /\ leads' = [leads EXCEPT ![n] = ~@]
  /\ UNCHANGED <<server, verdict, check, good, bad, view>>

Break ==
  /\ server' = ~server
  /\ UNCHANGED <<leads, verdict, check, good, bad, view>>

ExpireVerdict ==
  /\ \A n \in Checkers : ~leads[n]
  /\ verdict # "none" /\ verdict' = "none"
  /\ UNCHANGED <<leads, server, check, good, bad, view>>

HealthNext ==
  \/ \E n \in Checkers : \/ Follow(n) \/ StartCheck(n) \/ EndCheck(n)
                         \/ Write(n) \/ Elect(n)
  \/ Break \/ ExpireVerdict

HealthSpec == HealthInit /\ [][HealthNext]_healthVars

-----------------------------------------------------------------------------

OnlyLeader(n) == \A m \in Checkers : leads[m] <=> m = n

(***************************************************************************)
(* Once one node leads for good and the server stays down, every node of   *)
(* the cluster comes to see it as unhealthy and the store says so: the     *)
(* counters and the view the new leader kept from an earlier lease, and    *)
(* the late write of an earlier leader, only delay it.  The same for a     *)
(* server that is up again.                                                *)
(***************************************************************************)
ClusterConverges ==
  \A n \in Checkers, up \in BOOLEAN :
    <>[](OnlyLeader(n) /\ server = up)
      => <>[](\A m \in Checkers : view[m] = up /\ verdict = Name(up))
=============================================================================
