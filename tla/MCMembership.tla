---------------------------- MODULE MCMembership ----------------------------
(***************************************************************************)
(* Leader election and the node registry, for TLC: the two tasks of a      *)
(* ClusterManager share the store and no key of it, so a behaviour runs    *)
(* one of them, chosen at the start.                                       *)
(***************************************************************************)
EXTENDS LeaderElection, NodeRegistry

VARIABLE part

mcVars == <<part, vars, regVars>>

MCInit == part \in {"election", "registry"} /\ Init /\ RegInit

ElectionOn == part = "election" /\ UNCHANGED <<part, regVars>>
RegistryOn == part = "registry" /\ UNCHANGED <<part, vars>>

MCNext ==
  \/ ElectionOn /\ Next
  \/ RegistryOn /\ RegNext

\* The fairness of FairSpec and of RegFairSpec, each for its own part.
ElectionFairness ==
  /\ WF_vars(part = "election" /\ Tick)
  /\ \A n \in Nodes :
       WF_vars(part = "election" /\ TaskStep(n)) /\ SF_vars(part = "election" /\ Quit(n))

RegistryFairness ==
  /\ WF_regVars(part = "registry" /\ RegTick)
  /\ WF_regVars(part = "registry" /\ (StatusWrite \/ StatusPublish))
  /\ WF_regVars(part = "registry" /\ ScanStep)
  /\ SF_regVars(part = "registry" /\ ScanSrem /\ members' # members)
  /\ \A n \in Peers :
       /\ WF_regVars(part = "registry" /\ LifeStep(n))
       /\ WF_regVars(part = "registry" /\ BeatWrite(n)) /\ WF_regVars(part = "registry" /\ Listen(n))
       /\ SF_regVars(part = "registry" /\ ScanGet(n))

MCSpec == MCInit /\ [][MCNext]_mcVars /\ ElectionFairness /\ RegistryFairness

\* A leader emerges, and a node that left is forgotten.
MembershipSettles == LeaderEmerges /\ LeaversForgotten
=============================================================================
