---------------------------- MODULE MCBalancing -----------------------------
(***************************************************************************)
(* The parts that decide which server a request goes to, each alone, for   *)
(* TLC: passive health, the circuit breaker and the server pool of a TCP   *)
(* or UDP service.  A behaviour runs one of them, chosen at the start; how *)
(* passive health and a balancer interact is the subject of ProxyHealth.   *)
(***************************************************************************)
EXTENDS PassiveHealth, CircuitBreaker, Pool

VARIABLE part

mcVars == <<part, passiveVars, cbVars, poolVars>>

MCInit ==
  /\ part \in {"passive", "breaker", "pool"}
  /\ PassiveInit /\ CbInit /\ PoolInit

PassiveOn == part = "passive" /\ UNCHANGED <<part, cbVars, poolVars>>
BreakerOn == part = "breaker" /\ UNCHANGED <<part, passiveVars, poolVars>>
PoolOn == part = "pool" /\ UNCHANGED <<part, passiveVars, cbVars>>

MCNext ==
  \/ PassiveOn /\ PassiveNext
  \/ BreakerOn /\ CbNext
  \/ PoolOn /\ PoolNext

\* The fairness of PassiveFairSpec and of PoolFairSpec, each for its own part.
MCFairness ==
  /\ WF_passiveVars(part = "passive" /\ PassiveTick)
  /\ \A u \in Urls : WF_passiveVars(part = "passive" /\ RecordResponse(u, FALSE))
  /\ \A c \in AllCallers : WF_poolVars(part = "pool" /\ Attempt(c))
  /\ \A m \in Setters : WF_poolVars(part = "pool" /\ MarkServer(m))

MCSpec == MCInit /\ [][MCNext]_mcVars /\ MCFairness
=============================================================================
