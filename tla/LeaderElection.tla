--------------------------- MODULE LeaderElection ---------------------------
(***************************************************************************)
(* The health-check leader election of a cluster (cluster/manager.rs) over *)
(* the shared store (store/valkey.rs).  Every node runs an election task   *)
(* that asks the store for the lease every leader_ttl / 3 and copies the   *)
(* answer into its is_leader flag; a node that is shut down gives the      *)
(* lease back.  Requests travel to the store and answers travel back, and  *)
(* either can be lost; the client gives up after RoundTrip and reports an  *)
(* error, but the request it gave up may still reach the store.  Time      *)
(* advances in ticks that are common to the store and the nodes.           *)
(***************************************************************************)
EXTENDS Integers, FiniteSets

CONSTANTS
  Nodes,      \* node ids
  NoNode,     \* the value of an absent lease key
  TTL,        \* leader_ttl, in ticks
  Second,     \* ticks in a second
  RoundTrip,  \* ticks before the store client gives a request up
  MaxFaults   \* bound on errors, crashes and shutdowns

\* leader_ttl / 3, the period of the election task.
Interval == TTL \div 3

\* The lease the store grants: ttl.as_secs(), whole seconds only.
Lease == (TTL \div Second) * Second

ASSUME ElectionConfig ==
  /\ NoNode \notin Nodes
  /\ TTL \in Nat /\ Second \in Nat \ {0} /\ RoundTrip \in Nat /\ MaxFaults \in Nat
  /\ Interval \in Nat /\ Lease \in Nat
  /\ 0 < Interval /\ RoundTrip =< Interval /\ Interval + RoundTrip < Lease

VARIABLES
  holder,   \* the value of the lease key, NoNode when it is absent
  ttl,      \* ticks until the store expires the key
  proc,     \* the process of each node
  task,     \* where the election task of each node is
  timer,    \* ticks since its interval timer last fired
  flag,     \* is_leader
  stray,    \* an acquire the client gave up is still on its way
  faults    \* errors, crashes and shutdowns so far

vars == <<holder, ttl, proc, task, timer, flag, stray, faults>>

Alive(n) == proc[n] \in {"up", "stopping", "released"}

InFlight(n) == task[n] \in {"asked", "granted", "refused"}

Leads(n) == proc[n] = "up" /\ flag[n]

Fault == faults < MaxFaults /\ faults' = faults + 1

Init ==
  /\ holder = NoNode
  /\ ttl = 0
  /\ proc = [n \in Nodes |-> "down"]
  /\ task = [n \in Nodes |-> "done"]
  /\ timer = [n \in Nodes |-> 0]
  /\ flag = [n \in Nodes |-> FALSE]
  /\ stray = [n \in Nodes |-> FALSE]
  /\ faults = 0

-----------------------------------------------------------------------------
\* Mutated forms of the operations below.

CanAcquireAny(n) == TRUE

CanAcquireFree(n) == holder = NoNode

-----------------------------------------------------------------------------
\* ClusterManager::new: the flag is down and the first tick is immediate.
Start(n) ==
  /\ ~Alive(n)
  /\ proc' = [proc EXCEPT ![n] = "up"]
  /\ task' = [task EXCEPT ![n] = "wait"]
  /\ timer' = [timer EXCEPT ![n] = Interval]
  /\ flag' = [flag EXCEPT ![n] = FALSE]
  /\ UNCHANGED <<holder, ttl, stray, faults>>

\* The interval timer fires and the task sends leader_acquire.
Fire(n) ==
  /\ Alive(n) /\ task[n] = "wait" /\ timer[n] = Interval
  /\ task' = [task EXCEPT ![n] = "asked"]
  /\ timer' = [timer EXCEPT ![n] = 0]
  /\ UNCHANGED <<holder, ttl, proc, flag, stray, faults>>

\* LEADER_ACQUIRE_SCRIPT takes a free key, and renews one the node holds.
CanAcquire(n) == holder \in {NoNode, n}

Acquire(n) ==
  IF CanAcquire(n)
  THEN holder' = n /\ ttl' = Lease
  ELSE UNCHANGED <<holder, ttl>>

\* The store runs the script for the request of a waiting task ...
Apply(n) ==
  /\ Alive(n) /\ task[n] = "asked"
  /\ Acquire(n)
  /\ task' = [task EXCEPT ![n] = IF CanAcquire(n) THEN "granted" ELSE "refused"]
  /\ UNCHANGED <<proc, timer, flag, stray, faults>>

\* ... or for a request nobody waits for any more.
ApplyStray(n) ==
  /\ stray[n]
  /\ Acquire(n)
  /\ stray' = [stray EXCEPT ![n] = FALSE]
  /\ UNCHANGED <<proc, task, timer, flag, faults>>

\* Ok(acquired): the flag takes the answer.
Answer(n) ==
  /\ Alive(n) /\ task[n] \in {"granted", "refused"}
  /\ flag' = [flag EXCEPT ![n] = (task[n] = "granted")]
  /\ task' = [task EXCEPT ![n] = "wait"]
  /\ UNCHANGED <<holder, ttl, proc, timer, stray, faults>>

\* Err(_): the request or its answer was lost or came too late; step down.
Fail(n) ==
  /\ Alive(n) /\ InFlight(n)
  /\ Fault
  /\ flag' = [flag EXCEPT ![n] = FALSE]
  /\ task' = [task EXCEPT ![n] = "wait"]
  /\ \E b \in BOOLEAN :
       stray' = [stray EXCEPT ![n] = stray[n] \/ (b /\ task[n] = "asked")]
  /\ UNCHANGED <<holder, ttl, proc, timer>>

\* shutdown: signal the tasks, then load is_leader to decide on a release.
Shutdown(n) ==
  /\ proc[n] = "up"
  /\ Fault
  /\ proc' = [proc EXCEPT ![n] = IF flag[n] THEN "stopping" ELSE "released"]
  /\ UNCHANGED <<holder, ttl, task, timer, flag, stray>>

\* leader_release, whose error is ignored: LEADER_RELEASE_SCRIPT deletes the
\* key only if the node holds it.
Release(n) ==
  /\ proc[n] = "stopping"
  /\ proc' = [proc EXCEPT ![n] = "released"]
  /\ \/ /\ IF holder = n THEN holder' = NoNode /\ ttl' = 0
                         ELSE UNCHANGED <<holder, ttl>>
        /\ UNCHANGED faults
     \/ Fault /\ UNCHANGED <<holder, ttl>>
  /\ UNCHANGED <<task, timer, flag, stray>>

\* The election task receives the shutdown signal between two requests.
Quit(n) ==
  /\ proc[n] \in {"stopping", "released"} /\ task[n] = "wait"
  /\ task' = [task EXCEPT ![n] = "done"]
  /\ UNCHANGED <<holder, ttl, proc, timer, flag, stray, faults>>

\* What the end of a process leaves behind: at most a request on its way.
Vanish(n) ==
  /\ task' = [task EXCEPT ![n] = "done"]
  /\ flag' = [flag EXCEPT ![n] = FALSE]
  /\ \E b \in BOOLEAN :
       stray' = [stray EXCEPT ![n] = stray[n] \/ (b /\ task[n] = "asked")]
  /\ UNCHANGED <<holder, ttl, timer>>

\* The process exits once shutdown has returned.
Exit(n) ==
  /\ proc[n] = "released"
  /\ proc' = [proc EXCEPT ![n] = "stopped"]
  /\ Vanish(n)
  /\ UNCHANGED faults

Crash(n) ==
  /\ Alive(n)
  /\ Fault
  /\ proc' = [proc EXCEPT ![n] = "down"]
  /\ Vanish(n)

\* Time passes, but not past a due timer, a shutdown signal that is ready to be
\* received, or the client's patience.
Tick ==
  /\ \A n \in Nodes : Alive(n) =>
       /\ task[n] = "wait" => proc[n] = "up" /\ timer[n] < Interval
       /\ InFlight(n) => timer[n] < RoundTrip
  /\ timer' = [n \in Nodes |-> IF Alive(n) /\ task[n] # "done"
                               THEN timer[n] + 1 ELSE timer[n]]
  /\ ttl' = IF ttl = 0 THEN 0 ELSE ttl - 1
  /\ holder' = IF ttl =< 1 THEN NoNode ELSE holder
  /\ UNCHANGED <<proc, task, flag, stray, faults>>

TaskStep(n) == Fire(n) \/ Apply(n) \/ Answer(n)

Next ==
  \/ Tick
  \/ \E n \in Nodes :
       \/ Start(n) \/ TaskStep(n) \/ Quit(n) \/ ApplyStray(n) \/ Fail(n)
       \/ Shutdown(n) \/ Release(n) \/ Exit(n) \/ Crash(n)

Spec == Init /\ [][Next]_vars

\* Timers fire, the store serves what reaches it, time passes, and select!
\* picks among its ready branches at random, so never one of them for ever.
FairSpec ==
  /\ Spec
  /\ WF_vars(Tick)
  /\ \A n \in Nodes : WF_vars(TaskStep(n)) /\ SF_vars(Quit(n))

-----------------------------------------------------------------------------
\* The type invariant of the election.
TypeOK ==
  /\ holder \in Nodes \cup {NoNode}
  /\ ttl \in 0..Lease
  /\ proc \in [Nodes -> {"down", "up", "stopping", "released", "stopped"}]
  /\ task \in [Nodes -> {"wait", "asked", "granted", "refused", "done"}]
  /\ timer \in [Nodes -> 0..Interval]
  /\ flag \in [Nodes -> BOOLEAN]
  /\ stray \in [Nodes -> BOOLEAN]
  /\ faults \in 0..MaxFaults

\* No two running nodes believe they lead at the same time, whatever requests
\* are lost, delayed or applied after they were given up: the flag the election
\* task sets (manager.rs:192) is always replaced before the lease behind it
\* can expire.
OneLeader ==
  \A m, n \in Nodes : Leads(m) /\ Leads(n) => m = n

\* A running leader loses its leadership only through an error of its own
\* request, a crash or its shutdown: renewing at a third of the TTL is early
\* enough that the store never refuses a renewal (manager.rs:194-196 never
\* logs "Lost health check leadership").
LeaderKept ==
  [][\A n \in Nodes : Leads(n) /\ ~Leads(n)' => faults' > faults]_vars

\* While some node keeps running, some running node comes to lead: a lease left
\* behind by a crashed node, or re-taken by a stray request, expires.
LeaderEmerges ==
  (\E n \in Nodes : proc[n] = "up")
    ~> (\E n \in Nodes : Leads(n)) \/ (\A n \in Nodes : proc[n] # "up")
=============================================================================
