-------------------------- MODULE MembershipProofs --------------------------
(***************************************************************************)
(* Proofs about the members of a cluster, for any number of nodes and      *)
(* faults: at most one running node leads, for any timing that meets       *)
(* ElectionConfig, the registry neither lists the dead nor undoes a drain, *)
(* for any times to live, and on one host at most one process runs as the  *)
(* instance, for any number of processes.                                  *)
(***************************************************************************)
EXTENDS LeaderElection, NodeRegistry, Instance, TLAPS

-----------------------------------------------------------------------------
(* Leader election: the inductive invariant bounds the time left on the    *)
(* lease from below by the time since the request that set the flag was    *)
(* sent.                                                                   *)

\* No request is in flight for longer than the client waits.
TripOK ==
  \A n \in Nodes : Alive(n) /\ InFlight(n) => timer[n] =< RoundTrip

\* A running node whose flag is up, or about to go up, holds the lease, and
\* the lease outlasts the next renewal.
BackedBy(n) ==
  proc[n] = "up" =>
    /\ task[n] # "done"
    /\ task[n] = "wait" /\ flag[n] => holder = n /\ ttl >= Lease - timer[n]
    /\ task[n] = "asked" /\ flag[n] =>
         holder = n /\ ttl >= Lease - Interval - timer[n]
    /\ task[n] = "granted" => holder = n /\ ttl >= Lease - timer[n]
    /\ task[n] = "refused" => ~flag[n]

Backed == \A n \in Nodes : BackedBy(n)

LeaseInv == TypeOK /\ TripOK /\ Backed

\* The election starts with every node down and no lease taken.
LEMMA InitLease == Init => LeaseInv
  <1> SUFFICES ASSUME Init PROVE LeaseInv
    OBVIOUS
  <1>1. TypeOK
    BY ElectionConfig DEF Init, TypeOK
  <1>2. TripOK /\ Backed
    BY DEF Init, TripOK, Backed, BackedBy, Alive
  <1>3. QED
    BY <1>1, <1>2 DEF LeaseInv

\* Every step keeps the variables in their types.
LEMMA NextType == TypeOK /\ TripOK /\ [Next]_vars => TypeOK'
  <1> SUFFICES ASSUME TypeOK, TripOK, [Next]_vars PROVE TypeOK'
    OBVIOUS
  <1> USE ElectionConfig
  <1>0. Lease \in Nat /\ Interval \in Nat /\ 0 < Interval
    OBVIOUS
  <1> HIDE DEF Lease, Interval
  <1>1. CASE Tick
    <2>1. timer' \in [Nodes -> 0..Interval]
      BY <1>0, <1>1 DEF Tick, TypeOK, InFlight
    <2>2. ttl' \in 0..Lease /\ holder' \in Nodes \cup {NoNode}
      BY <1>0, <1>1 DEF Tick, TypeOK
    <2>3. QED
      BY <1>1, <2>1, <2>2 DEF Tick, TypeOK
  <1>2. ASSUME NEW n \in Nodes, Start(n) PROVE TypeOK'
    BY <1>0, <1>2 DEF Start, TypeOK
  <1>3. ASSUME NEW n \in Nodes, Fire(n) PROVE TypeOK'
    BY <1>0, <1>3 DEF Fire, TypeOK
  <1>4. ASSUME NEW n \in Nodes, Acquire(n)
        PROVE  ttl' \in 0..Lease /\ holder' \in Nodes \cup {NoNode}
    BY <1>0, <1>4 DEF Acquire, TypeOK
  <1>5. ASSUME NEW n \in Nodes, Apply(n) PROVE TypeOK'
    BY <1>4, <1>5 DEF Apply, TypeOK
  <1>6. ASSUME NEW n \in Nodes, Answer(n) PROVE TypeOK'
    BY <1>6 DEF Answer, TypeOK
  <1>7. ASSUME NEW n \in Nodes, Quit(n) PROVE TypeOK'
    BY <1>7 DEF Quit, TypeOK
  <1>8. ASSUME NEW n \in Nodes, ApplyStray(n) PROVE TypeOK'
    BY <1>4, <1>8 DEF ApplyStray, TypeOK
  <1>9. ASSUME Fault PROVE faults' \in 0..MaxFaults
    BY <1>9 DEF Fault, TypeOK
  <1>10. ASSUME NEW n \in Nodes, Fail(n) PROVE TypeOK'
    BY <1>9, <1>10 DEF Fail, TypeOK
  <1>11. ASSUME NEW n \in Nodes, Shutdown(n) PROVE TypeOK'
    BY <1>9, <1>11 DEF Shutdown, TypeOK
  <1>12. ASSUME NEW n \in Nodes, Release(n) PROVE TypeOK'
    BY <1>0, <1>9, <1>12 DEF Release, TypeOK
  <1>13. ASSUME NEW n \in Nodes, Exit(n) PROVE TypeOK'
    BY <1>13 DEF Exit, Vanish, TypeOK
  <1>14. ASSUME NEW n \in Nodes, Crash(n) PROVE TypeOK'
    BY <1>9, <1>14 DEF Crash, Vanish, TypeOK
  <1>15. CASE UNCHANGED vars
    BY <1>15 DEF vars, TypeOK
  <1>16. QED
    BY <1>1, <1>2, <1>3, <1>5, <1>6, <1>7, <1>8, <1>10, <1>11, <1>12, <1>13,
       <1>14, <1>15 DEF Next, TaskStep

\* A store operation on behalf of one node takes no lease from another, and
\* renews the node's own.
LEMMA AcquireKeeps ==
  ASSUME TypeOK, NEW m \in Nodes, NEW n \in Nodes, Acquire(m), holder = n
  PROVE  holder' = n /\ ttl' >= ttl
  BY ElectionConfig DEF Acquire, CanAcquire, TypeOK

\* Every step of the election keeps each flag backed by the lease.
LEMMA NextLease == LeaseInv /\ [Next]_vars => LeaseInv'
  <1> SUFFICES ASSUME LeaseInv, [Next]_vars PROVE LeaseInv'
    OBVIOUS
  <1>0. TypeOK /\ TripOK /\ Backed
    BY DEF LeaseInv
  <1>1. TypeOK'
    BY <1>0, NextType
  <1> USE ElectionConfig
  <1> HIDE DEF Lease, Interval
  <1>2. TripOK'
    <2>1. CASE Tick
      BY <1>0, <2>1 DEF Tick, TripOK, TypeOK, Alive, InFlight
    <2>2. ASSUME NEW n \in Nodes,
                 Start(n) \/ TaskStep(n) \/ Quit(n) \/ ApplyStray(n) \/ Fail(n)
          PROVE  TripOK'
      BY <1>0, <2>2 DEF Start, TaskStep, Fire, Apply, Answer, Quit, ApplyStray,
         Fail, TripOK, TypeOK, Alive, InFlight
    <2>3. ASSUME NEW n \in Nodes,
                 Shutdown(n) \/ Release(n) \/ Exit(n) \/ Crash(n)
          PROVE  TripOK'
      BY <1>0, <2>3 DEF Shutdown, Release, Exit, Crash, Vanish,
         TripOK, TypeOK, Alive, InFlight
    <2>4. CASE UNCHANGED vars
      BY <1>0, <2>4 DEF vars, TripOK, Alive, InFlight
    <2>5. QED
      BY <2>1, <2>2, <2>3, <2>4 DEF Next
  <1>3. Backed'
    <2> SUFFICES ASSUME NEW k \in Nodes PROVE BackedBy(k)'
      BY DEF Backed
    <2>0. BackedBy(k)
      BY <1>0 DEF Backed
    <2>1. CASE Tick
      <3> SUFFICES ASSUME proc[k] = "up" PROVE BackedBy(k)'
        BY <2>1 DEF Tick, BackedBy
      <3>1. timer'[k] = timer[k] + 1 /\ timer[k] \in 0..Interval
        BY <1>0, <2>0, <2>1 DEF Tick, TypeOK, Alive, BackedBy
      <3>2. InFlight(k) => timer[k] < RoundTrip
        BY <2>1 DEF Tick, Alive
      <3>3. task[k] = "wait" => timer[k] < Interval
        BY <2>1 DEF Tick, Alive
      <3>4. ttl > 1 => holder' = holder /\ ttl' = ttl - 1
        BY <1>0, <2>1 DEF Tick, TypeOK
      <3>5. QED
        BY <1>0, <2>0, <2>1, <3>1, <3>2, <3>3, <3>4
           DEF Tick, TypeOK, BackedBy, InFlight
    <2>2. ASSUME NEW n \in Nodes, Start(n) PROVE BackedBy(k)'
      BY <1>0, <2>0, <2>2 DEF Start, BackedBy, TypeOK
    <2>3. ASSUME NEW n \in Nodes, Fire(n) PROVE BackedBy(k)'
      BY <1>0, <2>0, <2>3 DEF Fire, BackedBy, TypeOK
    <2>4. ASSUME NEW n \in Nodes, Apply(n) PROVE BackedBy(k)'
      <3>1. CASE n = k
        <4>1. task[k] = "asked" /\ timer[k] \in 0..Interval /\ timer' = timer
              /\ flag' = flag /\ proc' = proc /\ timer[k] =< RoundTrip
          BY <1>0, <2>4, <3>1 DEF Apply, TypeOK, TripOK, InFlight
        <4>2. CASE CanAcquire(k)
          BY <1>0, <4>1, <4>2, <2>4, <3>1 DEF Apply, Acquire, BackedBy, TypeOK
        <4>3. CASE ~CanAcquire(k)
          BY <1>0, <2>0, <4>1, <4>3, <2>4, <3>1
             DEF Apply, CanAcquire, BackedBy, TypeOK
        <4>4. QED
          BY <4>2, <4>3
      <3>2. CASE n # k
        <4>1. holder = k => holder' = k /\ ttl' >= ttl
          BY <1>0, <2>4, AcquireKeeps DEF Apply
        <4>2. task'[k] = task[k] /\ timer' = timer /\ flag' = flag /\ proc' = proc
          BY <1>0, <2>4, <3>2 DEF Apply, TypeOK
        <4>3. QED
          BY <1>0, <1>1, <2>0, <4>1, <4>2 DEF BackedBy, TypeOK
      <3>3. QED
        BY <3>1, <3>2
    <2>5. ASSUME NEW n \in Nodes, Answer(n) PROVE BackedBy(k)'
      BY <1>0, <2>0, <2>5 DEF Answer, BackedBy, TypeOK
    <2>6. ASSUME NEW n \in Nodes, Quit(n) PROVE BackedBy(k)'
      BY <1>0, <2>0, <2>6 DEF Quit, BackedBy, TypeOK
    <2>7. ASSUME NEW n \in Nodes, ApplyStray(n) PROVE BackedBy(k)'
      <3>1. holder = k => holder' = k /\ ttl' >= ttl
        BY <1>0, <2>7, AcquireKeeps DEF ApplyStray
      <3>2. QED
        BY <1>0, <1>1, <2>0, <2>7, <3>1 DEF ApplyStray, BackedBy, TypeOK
    <2>8. ASSUME NEW n \in Nodes, Fail(n) PROVE BackedBy(k)'
      BY <1>0, <2>0, <2>8 DEF Fail, BackedBy, TypeOK
    <2>9. ASSUME NEW n \in Nodes, Shutdown(n) PROVE BackedBy(k)'
      BY <1>0, <2>0, <2>9 DEF Shutdown, BackedBy, TypeOK
    <2>10. ASSUME NEW n \in Nodes, Release(n) PROVE BackedBy(k)'
      <3>1. n = k \/ holder # k => BackedBy(k)'
        BY <1>0, <2>0, <2>10 DEF Release, BackedBy, TypeOK
      <3>2. n # k /\ holder = k => holder' = holder /\ ttl' = ttl
        BY <2>10 DEF Release
      <3>3. QED
        BY <1>0, <2>0, <2>10, <3>1, <3>2 DEF Release, BackedBy, TypeOK
    <2>11. ASSUME NEW n \in Nodes, Exit(n) \/ Crash(n) PROVE BackedBy(k)'
      BY <1>0, <2>0, <2>11 DEF Exit, Crash, Vanish, BackedBy, TypeOK
    <2>12. CASE UNCHANGED vars
      BY <2>0, <2>12 DEF vars, BackedBy
    <2>13. QED
      BY <2>1, <2>2, <2>3, <2>4, <2>5, <2>6, <2>7, <2>8, <2>9, <2>10, <2>11,
         <2>12 DEF Next, TaskStep
  <1>4. QED
    BY <1>1, <1>2, <1>3 DEF LeaseInv

\* The flag of a running node is up only while the store names that node as the
\* holder of the lease.
LEMMA LeadsHolds == ASSUME LeaseInv, NEW n \in Nodes, Leads(n) PROVE holder = n
  BY DEF LeaseInv, TypeOK, Backed, BackedBy, Leads

\* The inductive invariant holds in every reachable state.
LEMMA LeaseAlways == Spec => []LeaseInv
  BY InitLease, NextLease, PTL DEF Spec

\* The variables of the election keep their types and no two running nodes lead
\* at the same time, for every set of nodes and every number of faults.
THEOREM SingleLeader == Spec => [](TypeOK /\ OneLeader)
  <1>1. LeaseInv => TypeOK /\ OneLeader
    BY LeadsHolds DEF OneLeader, LeaseInv
  <1>2. QED
    BY <1>1, LeaseAlways, PTL

\* A running leader steps down only through an error, a crash or a shutdown:
\* the store never refuses the renewal of a running leader.
THEOREM LeadershipKept == Spec => LeaderKept
  <1> DEFINE Keep == \A n \in Nodes : Leads(n) /\ ~Leads(n)' => faults' > faults
  <1>1. LeaseInv /\ [Next]_vars => [Keep]_vars
    <2> SUFFICES ASSUME LeaseInv, Next, NEW k \in Nodes, Leads(k), ~Leads(k)'
                 PROVE  faults' > faults
      BY DEF vars
    <2>0. TypeOK /\ BackedBy(k)
      BY DEF LeaseInv, Backed
    <2>1. ASSUME Fault PROVE faults' > faults
      BY <2>0, <2>1, ElectionConfig DEF Fault, TypeOK
    <2>2. CASE Tick
      BY <2>2 DEF Tick, Leads
    <2>3. ASSUME NEW n \in Nodes, Answer(n) PROVE FALSE
      BY <2>0, <2>3 DEF Answer, Leads, BackedBy, TypeOK
    <2>4. ASSUME NEW n \in Nodes, Start(n) \/ Fire(n) \/ Apply(n) \/ Quit(n)
                   \/ ApplyStray(n) \/ Release(n) \/ Exit(n)
          PROVE  FALSE
      BY <2>0, <2>4 DEF Start, Fire, Apply, Quit, ApplyStray, Release, Exit,
         Vanish, Leads, Alive, TypeOK
    <2>5. ASSUME NEW n \in Nodes, Fail(n) \/ Shutdown(n) \/ Crash(n)
          PROVE  faults' > faults
      BY <2>1, <2>5 DEF Fail, Shutdown, Crash
    <2>6. QED
      BY <2>2, <2>3, <2>4, <2>5 DEF Next, TaskStep
  <1>2. QED
    BY <1>1, LeaseAlways, PTL DEF Spec, LeaderKept

-----------------------------------------------------------------------------
(* The node registry                                                       *)

Maybe == Record \cup {Absent}

Ops == [at : {"idle", "write", "publish"}, node : Peers \cup {Absent}, copy : Maybe]

Scans == [at : {"idle", "get", "srem"}, todo : SUBSET Peers, gone : Peers \cup {Absent},
          dead : SUBSET Peers]

RegTypes ==
  /\ rec \in [Peers -> Maybe] /\ beat \in [Peers -> Maybe]
  /\ silent \in [Peers -> 0 .. NodeTimeout + 1]
  /\ life \in [Peers -> {"off", "joining", "up", "leaving", "deleted"}]
  /\ op \in Ops /\ scan \in Scans /\ members \subseteq Peers

\* A record is at least as old as its node has been silent, but for the tick
\* a clock may be ahead.
AgesInv == \A n \in Peers : rec[n] # Absent => rec[n].age + 1 >= silent[n]

\* What node_set_status is about to write is a drain.
OpInv == op.at = "write" => op.node \in Peers /\ op.copy \in Record /\ op.copy.status = "Draining"

RegInv == RegTypes /\ AgesInv /\ OpInv /\ DeadNotListed

LEMMA MaxAgeType == MaxAge \in Nat /\ MaxAge >= NodeTimeout /\ MaxAge < TimeWidth
BY RegistryConfig DEF MaxAge

LEMMA StampedRecord ==
  ASSUME NEW n \in Peers, NEW st \in Status
  PROVE  [status |-> st, age |-> Stamp(n)] \in Record /\ [status |-> st, age |-> 0] \in Record
<1>1. Stamp(n) \in -1 .. MaxAge /\ 0 \in -1 .. MaxAge
  BY MaxAgeType DEF Stamp
<1> QED BY <1>1 DEF Record

\* A tick makes a record older, up to the bound, and changes nothing else.
LEMMA OlderRecord ==
  ASSUME NEW r \in Maybe
  PROVE  /\ Older(r) \in Maybe
         /\ r = Absent => Older(r) = Absent
         /\ r # Absent => /\ Older(r) \in Record /\ Older(r).status = r.status
                          /\ Older(r).age = IF r.age < MaxAge THEN r.age + 1 ELSE r.age
<1>1. CASE r = Absent
  BY <1>1 DEF Older, Maybe
<1>2. CASE r # Absent
  <2>1. r \in Record /\ r.status \in Status /\ r.age \in -1 .. MaxAge
    BY <1>2 DEF Maybe, Record
  <2>2. (IF r.age < MaxAge THEN r.age + 1 ELSE r.age) \in -1 .. MaxAge
    BY <2>1, MaxAgeType
  <2>3. Older(r) = [status |-> r.status, age |-> IF r.age < MaxAge THEN r.age + 1 ELSE r.age]
    BY <1>2, <2>1 DEF Older, Record
  <2> QED BY <1>2, <2>1, <2>2, <2>3 DEF Maybe, Record
<1> QED BY <1>1, <1>2

LEMMA SmallMod == ASSUME NEW a \in Nat, NEW w \in Nat \ {0}, a < w PROVE a % w = a
BY SMT

\* A record old enough is not fresh.
LEMMA OldNotFresh ==
  ASSUME NEW r \in Record, r.age >= NodeTimeout PROVE ~Fresh(r)
<1>1. r.age \in -1 .. MaxAge /\ NodeTimeout \in Nat /\ TimeWidth \in Nat /\ MaxAge \in Nat
  BY RegistryConfig, MaxAgeType DEF Record
<1>2. r.age \in Nat /\ r.age < TimeWidth /\ TimeWidth # 0
  BY <1>1, MaxAgeType
<1>3. r.age % TimeWidth = r.age
  BY <1>1, <1>2, SmallMod
<1> QED BY <1>1, <1>3 DEF Fresh, Elapsed

LEMMA RegInitInv == RegInit => RegInv
BY RegistryConfig DEF RegInit, RegInv, RegTypes, AgesInv, OpInv, DeadNotListed, Maybe, Ops, Scans,
   Idle, NoScan

\* A record written now keeps the invariant.
LEMMA PutKeeps ==
  ASSUME RegTypes, AgesInv, NEW n \in Peers, NEW r \in Record, Put(n, r)
  PROVE  rec' \in [Peers -> Maybe] /\ silent' \in [Peers -> 0 .. NodeTimeout + 1] /\ AgesInv'
<1>1. 0 \in 0 .. NodeTimeout + 1 /\ r.age \in -1 .. MaxAge
  BY RegistryConfig DEF Record
<1>2. rec' \in [Peers -> Maybe] /\ silent' \in [Peers -> 0 .. NodeTimeout + 1]
  BY <1>1 DEF RegTypes, Put, Maybe
<1>3. ASSUME NEW m \in Peers, rec'[m] # Absent PROVE rec'[m].age + 1 >= silent'[m]
  <2>1. CASE m = n
    BY <1>1, <2>1 DEF Put, RegTypes
  <2>2. CASE m # n
    BY <1>3, <2>2 DEF Put, RegTypes, AgesInv
  <2> QED BY <2>1, <2>2
<1> QED BY <1>2, <1>3 DEF AgesInv

LEMMA RegTickKeeps ==
  ASSUME RegInv, RegTick PROVE RegInv'
<1> USE DEF RegInv
<1>1. rec' \in [Peers -> Maybe] /\ beat' \in [Peers -> Maybe]
  BY OlderRecord DEF RegTypes, RegTick, Maybe
<1>2. silent' \in [Peers -> 0 .. NodeTimeout + 1]
  <2>1. ASSUME NEW n \in Peers PROVE silent'[n] \in 0 .. NodeTimeout + 1
    <3>1. silent[n] \in 0 .. NodeTimeout + 1
      BY DEF RegTypes
    <3>2. silent'[n] = IF ~Stopped(n) THEN 0
                       ELSE IF silent[n] =< NodeTimeout THEN silent[n] + 1 ELSE silent[n]
      BY DEF RegTick
    <3> QED BY <3>1, <3>2, RegistryConfig
  <2> QED BY <2>1 DEF RegTick
<1>3. op' \in Ops /\ OpInv'
  <2>1. op \in Ops /\ op.copy \in Maybe /\ op' = [op EXCEPT !.copy = Older(op.copy)]
    BY DEF RegTypes, Ops, RegTick
  <2>2. op' \in Ops /\ op'.at = op.at /\ op'.node = op.node /\ op'.copy = Older(op.copy)
    BY <2>1, OlderRecord DEF Ops
  <2>3. ASSUME op.at = "write" PROVE Older(op.copy) \in Record /\ Older(op.copy).status = "Draining"
    <3>1. CASE op.copy = Absent
      BY <2>1, <2>3, <3>1, OlderRecord DEF OpInv
    <3>2. CASE op.copy # Absent
      BY <2>1, <2>3, <3>2, OlderRecord DEF OpInv
    <3> QED BY <3>1, <3>2
  <2> QED BY <2>2, <2>3 DEF OpInv
<1>4. ASSUME NEW n \in Peers, rec'[n] # Absent PROVE rec'[n].age + 1 >= silent'[n]
  <2>1. rec[n] \in Maybe /\ rec[n] # Absent /\ rec'[n] = Older(rec[n])
    BY <1>4, OlderRecord DEF RegTypes, RegTick, Older
  <2>2. rec[n] \in Record /\ rec[n].age \in -1 .. MaxAge /\ rec[n].age + 1 >= silent[n]
    BY <2>1 DEF Maybe, Record, AgesInv
  <2>3. rec'[n].age = IF rec[n].age < MaxAge THEN rec[n].age + 1 ELSE rec[n].age
    BY <2>1, OlderRecord
  <2>4. silent[n] \in 0 .. NodeTimeout + 1
    BY DEF RegTypes
  <2>5. silent'[n] = IF ~Stopped(n) THEN 0
                     ELSE IF silent[n] =< NodeTimeout THEN silent[n] + 1 ELSE silent[n]
    BY DEF RegTick
  <2> QED BY <2>2, <2>3, <2>4, <2>5, MaxAgeType, RegistryConfig
<1>5. scan' \in Scans /\ members' \subseteq Peers /\ life' = life /\ DeadNotListed'
  BY DEF RegTypes, RegTick, DeadNotListed
<1> QED BY <1>1, <1>2, <1>3, <1>4, <1>5 DEF RegTypes, AgesInv

\* get_active_nodes takes no dead node into its answer.
LEMMA ScanGetKeeps ==
  ASSUME RegInv, NEW n \in Peers, ScanGet(n) PROVE scan' \in Scans /\ scan'.dead = {}
<1>1. scan \in Scans /\ scan.dead = {} /\ scan.todo \subseteq Peers
  BY DEF RegInv, RegTypes, DeadNotListed, Scans
<1>2. ~(rec[n] # Absent /\ Fresh(rec[n]) /\ silent[n] > NodeTimeout)
  <2>1. SUFFICES ASSUME rec[n] # Absent, silent[n] > NodeTimeout PROVE ~Fresh(rec[n])
    OBVIOUS
  <2>2. rec[n] \in Record /\ rec[n].age \in -1 .. MaxAge /\ rec[n].age + 1 >= silent[n]
        /\ silent[n] \in 0 .. NodeTimeout + 1
    BY <2>1 DEF RegInv, RegTypes, AgesInv, Maybe, Record
  <2>3. rec[n].age >= NodeTimeout
    BY <2>1, <2>2, RegistryConfig
  <2> QED BY <2>2, <2>3, OldNotFresh
<1>3. scan' = [scan EXCEPT !.todo = scan.todo \ {n},
                 !.at = IF rec[n] = Absent THEN "srem" ELSE scan.at,
                 !.gone = IF rec[n] = Absent THEN n ELSE Absent, !.dead = scan.dead]
  BY <1>1, <1>2, Zenon DEF ScanGet
<1> QED BY <1>1, <1>3, Zenon DEF Scans

LEMMA RegStepInv == RegInv /\ [RegNext]_regVars => RegInv'
<1> SUFFICES ASSUME RegInv, [RegNext]_regVars PROVE RegInv'
  OBVIOUS
<1> USE DEF RegInv
<1>0. RegTypes /\ AgesInv /\ OpInv /\ DeadNotListed
  OBVIOUS
<1>1. ASSUME NEW n \in Peers, Register(n) PROVE RegInv'
  <2>1. UNCHANGED <<members, beat, op, scan>> /\ life' \in {life, [life EXCEPT ![n] = "joining"]}
    BY <1>1 DEF Register
  <2>2. CASE Put(n, [status |-> "Active", age |-> Stamp(n)])
    BY <1>0, <2>1, <2>2, PutKeeps, StampedRecord, ZenonT(40) DEF Status, RegTypes, OpInv, DeadNotListed
  <2>3. CASE UNCHANGED <<rec, left, silent, life>>
    BY <2>1, <2>3 DEF RegTypes, AgesInv, OpInv, DeadNotListed
  <2> QED BY <1>1, <2>2, <2>3 DEF Register
<1>2. ASSUME NEW n \in Peers, Join(n) PROVE RegInv'
  BY <1>2 DEF Join, RegTypes, AgesInv, OpInv, DeadNotListed
<1>3. ASSUME NEW n \in Peers, BeatRead(n) PROVE RegInv'
  <2>1. rec[n] \in Record
    BY <1>3 DEF BeatRead, RegTypes, Maybe
  <2>2. [rec[n] EXCEPT !.age = Stamp(n)] \in Maybe
    BY <2>1, StampedRecord, MaxAgeType DEF Record, Maybe, Stamp
  <2>3. beat' \in [Peers -> Maybe]
    BY <1>3, <2>2, Zenon DEF BeatRead, RegTypes
  <2> QED BY <1>3, <2>3 DEF BeatRead, RegTypes, AgesInv, OpInv, DeadNotListed
<1>4. ASSUME NEW n \in Peers, BeatWrite(n) PROVE RegInv'
  <2>1. beat[n] \in Record /\ Put(n, beat[n])
    BY <1>4 DEF BeatWrite, RegTypes, Maybe
  <2>2. beat' \in [Peers -> Maybe]
    BY <1>4 DEF BeatWrite, RegTypes, Maybe
  <2>3. UNCHANGED <<members, op, scan, life>>
    BY <1>4 DEF BeatWrite
  <2> QED BY <1>0, <2>1, <2>2, <2>3, PutKeeps DEF RegTypes, OpInv, DeadNotListed
<1>5. ASSUME NEW n \in Peers, BeatFail(n) \/ RegCrash(n) PROVE RegInv'
  BY <1>5 DEF BeatFail, RegCrash, RegTypes, AgesInv, OpInv, DeadNotListed, Maybe
<1>6. ASSUME NEW n \in Peers, NEW own \in BOOLEAN, DrainRequest(n, own) PROVE RegInv'
  <2>1. UNCHANGED <<rec, silent, members, beat, scan, life>>
    BY <1>6 DEF DrainRequest
  <2>2. CASE rec[n] = Absent
    <3>1. op' = Idle
      BY <1>6, <2>2 DEF DrainRequest
    <3> QED BY <2>1, <3>1 DEF Idle, RegTypes, AgesInv, OpInv, DeadNotListed, Ops, Maybe
  <2>3. CASE rec[n] # Absent
    <3>1. PICK a \in {Stamp(n), 0} :
            op' = [at |-> "write", node |-> n, copy |-> [status |-> "Draining", age |-> a]]
      BY <1>6, <2>3 DEF DrainRequest
    <3>2. [status |-> "Draining", age |-> a] \in Record
      BY StampedRecord, Zenon DEF Status
    <3> QED BY <2>1, <3>1, <3>2 DEF RegTypes, AgesInv, OpInv, DeadNotListed, Ops, Maybe
  <2> QED BY <2>2, <2>3
<1>7. CASE StatusWrite
  <2>1. op.node \in Peers /\ op.copy \in Record
    BY <1>7 DEF StatusWrite, OpInv
  <2>2. UNCHANGED <<members, beat, scan, life>>
    BY <1>7 DEF StatusWrite
  <2>3. CASE Put(op.node, op.copy) /\ op' = [at |-> "publish", node |-> op.node, copy |-> Absent]
    <3>1. op' \in Ops /\ op'.at = "publish"
      BY <2>1, <2>3 DEF Ops, Maybe
    <3> QED BY <1>0, <2>1, <2>2, <2>3, <3>1, PutKeeps, Zenon DEF RegTypes, OpInv, DeadNotListed
  <2>4. CASE op' = Idle /\ UNCHANGED <<rec, left, silent>>
    BY <2>2, <2>4 DEF Idle, RegTypes, AgesInv, OpInv, DeadNotListed, Ops, Maybe
  <2> QED BY <1>7, <2>3, <2>4 DEF StatusWrite
<1>8. CASE StatusPublish
  BY <1>8 DEF StatusPublish, Idle, RegTypes, AgesInv, OpInv, DeadNotListed, Ops, Maybe
<1>9. ASSUME NEW n \in Peers, Listen(n) \/ ShutdownNode(n) \/ DeregisterSrem(n) PROVE RegInv'
  BY <1>9 DEF Listen, ShutdownNode, DeregisterSrem, RegTypes, AgesInv, OpInv, DeadNotListed
<1>10. ASSUME NEW n \in Peers, DeregisterDel(n) PROVE RegInv'
  <2>1. UNCHANGED <<members, beat, op, scan, silent>>
    BY <1>10 DEF DeregisterDel, Drop
  <2>2. rec' = rec \/ rec' = [rec EXCEPT ![n] = Absent]
    BY <1>10 DEF DeregisterDel, Drop
  <2>3. rec' \in [Peers -> Maybe] /\ \A m \in Peers : rec'[m] # Absent => rec'[m] = rec[m]
    BY <2>2 DEF RegTypes, Maybe
  <2>4. life' \in [Peers -> {"off", "joining", "up", "leaving", "deleted"}]
    BY <1>10 DEF DeregisterDel, RegTypes
  <2> QED BY <2>1, <2>3, <2>4 DEF RegTypes, AgesInv, OpInv, DeadNotListed
<1>11. ASSUME NEW n \in Peers, ScanGet(n) PROVE RegInv'
  <2>1. scan' \in Scans /\ scan'.dead = {}
    BY <1>11, ScanGetKeeps
  <2> QED BY <1>11, <2>1 DEF ScanGet, RegTypes, AgesInv, OpInv, DeadNotListed
<1>12. CASE ScanStart \/ ScanSrem \/ ScanEnd
  <2>1. scan' \in Scans /\ scan'.dead = {} /\ members' \subseteq Peers
    <3>1. CASE ScanStart
      <4>1. scan' = [at |-> "get", todo |-> members, gone |-> Absent, dead |-> {}]
        BY <3>1, Zenon DEF ScanStart, NoScan
      <4>2. members' = members /\ members \in SUBSET Peers /\ {} \in SUBSET Peers
        BY <3>1 DEF ScanStart, RegTypes
      <4> QED BY <4>1, <4>2 DEF Scans
    <3>2. CASE ScanSrem
      <4>1. scan' \in Scans /\ scan'.dead = scan.dead
        BY <3>2, Zenon DEF ScanSrem, Scans, RegTypes
      <4> QED BY <3>2, <4>1 DEF ScanSrem, RegTypes, DeadNotListed
    <3>3. CASE ScanEnd
      BY <3>3 DEF ScanEnd, NoScan, Scans, RegTypes
    <3> QED BY <1>12, <3>1, <3>2, <3>3
  <2> QED BY <1>12, <2>1 DEF ScanStart, ScanSrem, ScanEnd, RegTypes, AgesInv, OpInv, DeadNotListed
<1>13. CASE RegTick
  BY <1>13, RegTickKeeps, Zenon
<1>14. CASE UNCHANGED regVars
  BY <1>14 DEF regVars, RegTypes, AgesInv, OpInv, DeadNotListed
<1> QED
  BY <1>1, <1>2, <1>3, <1>4, <1>5, <1>6, <1>7, <1>8, <1>9, <1>10, <1>11, <1>12, <1>13, <1>14
  DEF RegNext

(***************************************************************************)
(* The nodes get_active_nodes lists are not dead, and a Draining record    *)
(* turns Active again only by a heartbeat that had read it before or by    *)
(* the node starting anew: for any set of nodes, any times to live and any *)
(* set of clocks ahead.  A stopped node's record is as old as its silence  *)
(* (AgesInv), and what a drain request writes is a drain (OpInv).          *)
(***************************************************************************)
THEOREM RegistryIsHonest == RegSpec => RecordsHonest
<1>1. RegSpec => []RegInv
  BY RegInitInv, RegStepInv, PTL DEF RegSpec
<1>2. RegInv => DeadNotListed
  BY Zenon DEF RegInv
<1>3. RegInv /\ [RegNext]_regVars =>
        [\A n \in Peers :
            /\ rec[n] # Absent /\ rec[n].status = "Draining"
            /\ rec'[n] # Absent /\ rec'[n].status = "Active"
            => \/ beat[n] # Absent /\ beat[n].status = "Active"
               \/ life[n] = "off" /\ life'[n] = "joining"]_regVars
  <2> SUFFICES ASSUME RegInv, RegNext, NEW n \in Peers,
                      rec[n] # Absent, rec[n].status = "Draining",
                      rec'[n] # Absent, rec'[n].status = "Active"
               PROVE  \/ beat[n] # Absent /\ beat[n].status = "Active"
                      \/ life[n] = "off" /\ life'[n] = "joining"
    OBVIOUS
  <2>1. rec'[n] # rec[n]
    OBVIOUS
  <2>2. ASSUME NEW m \in Peers, Register(m) PROVE life[n] = "off" /\ life'[n] = "joining"
    <3>1. rec' = [rec EXCEPT ![m] = [status |-> "Active", age |-> Stamp(m)]]
          /\ life' = [life EXCEPT ![m] = "joining"] /\ life[m] = "off"
      BY <2>1, <2>2 DEF Register, Put
    <3>2. m = n
      BY <2>1, <3>1 DEF RegInv, RegTypes
    <3> QED BY <2>2, <3>1, <3>2 DEF Register, RegInv, RegTypes
  <2>3. ASSUME NEW m \in Peers, BeatWrite(m)
        PROVE  beat[n] # Absent /\ beat[n].status = "Active"
    BY <2>1, <2>3, Zenon DEF BeatWrite, Put, RegInv, RegTypes
  <2>4. CASE StatusWrite
    BY <2>1, <2>4 DEF StatusWrite, Put, RegInv, RegTypes, OpInv
  <2>5. CASE RegTick
    <3>1. rec'[n] = Older(rec[n]) \/ rec'[n] = Absent
      BY <2>5 DEF RegTick
    <3>2. rec[n] \in Maybe
      BY DEF RegInv, RegTypes
    <3>3. Older(rec[n]).status = "Draining"
      BY <3>2, OlderRecord
    <3> QED BY <3>1, <3>3
  <2>6. ASSUME NEW m \in Peers, DeregisterDel(m) PROVE FALSE
    BY <2>1, <2>6 DEF DeregisterDel, Drop, RegInv, RegTypes
  <2>7. ASSUME NEW m \in Peers,
               \/ Join(m) \/ BeatRead(m) \/ BeatFail(m) \/ Listen(m) \/ ShutdownNode(m)
               \/ DeregisterSrem(m) \/ RegCrash(m) \/ ScanGet(m)
               \/ \E own \in BOOLEAN : DrainRequest(m, own)
        PROVE  FALSE
    BY <2>1, <2>7 DEF Join, BeatRead, BeatFail, Listen, ShutdownNode, DeregisterSrem, RegCrash,
       ScanGet, DrainRequest
  <2>8. ASSUME StatusPublish \/ ScanStart \/ ScanSrem \/ ScanEnd PROVE FALSE
    BY <2>1, <2>8 DEF StatusPublish, ScanStart, ScanSrem, ScanEnd
  <2> QED BY <2>2, <2>3, <2>4, <2>5, <2>6, <2>7, <2>8, Zenon DEF RegNext
<1> QED BY <1>1, <1>2, <1>3, PTL DEF RegSpec, RecordsHonest, DrainUndoneByRaceOnly

-----------------------------------------------------------------------------
(* One instance                                                            *)

Owning == {"locked", "cleared", "named", "starting", "serving"}
InstPlaces == Owning \cup Over \cup {"off", "opened", "refused", "unlocked", "servingAlone"}
Pids == Procs \cup {Nobody, OldPid}
Reports == [by : Procs \cup {Nobody}, own : Procs \cup {Nobody}, pid : Pids]

\* The lock is with the process that is past SetLock, and with no other.
LockInv ==
  /\ owner # Nobody => inMain[owner] \in Owning
  /\ \A p \in Procs : inMain[p] \in Owning => owner = p

\* What a refused process knows of the owner stays true while the owner owns:
\* the owner is past SetLock for good, so it can neither empty the file again
\* nor come back to the lock.
ReportInv(p) ==
  /\ inMain[p] = "refused" => told[p].by # Nobody
  /\ told[p].by # Nobody => inMain[told[p].by] \notin {"off", "opened"}
  /\ told[p].own # Nobody => told[p].own = told[p].by /\ inMain[p] \in Over \cup {"refused"}
  /\ inMain[p] = "refused" /\ told[p].own # Nobody /\ owner = told[p].own =>
       file = owner /\ inMain[owner] \in {"named", "starting", "serving"}
  /\ inMain[p] = "exited" /\ told[p].own # Nobody => told[p].pid = told[p].own

InstTypes ==
  /\ inMain \in [Procs -> InstPlaces]
  /\ owner \in Procs \cup {Nobody}
  /\ file \in Pids
  /\ told \in [Procs -> Reports]

InstInv == InstTypes /\ LockInv /\ \A p \in Procs : ReportInv(p)

LEMMA InstInitInv == InstInit => InstInv
BY InstanceConfig
   DEF InstInit, InstInv, InstTypes, LockInv, ReportInv, Untold, Reports, Pids, InstPlaces,
       Owning, Over

\* Process p moves and nothing is told: what is left to show of the step.
LEMMA Moved ==
  ASSUME InstInv, NEW p \in Procs, NEW place \in InstPlaces, Moves(p, place),
         told' = told, owner' \in Procs \cup {Nobody}, file' \in Pids
  PROVE  /\ InstTypes'
         /\ inMain'[p] = place
         /\ \A q \in Procs \ {p} : inMain'[q] = inMain[q]
BY DEF InstInv, InstTypes, Moves


\* A process that was not the owner moves to a place that is not an owner's.
LEMMA AsideInv ==
  ASSUME InstInv, NEW p \in Procs, NEW place \in InstPlaces \ (Owning \cup {"off", "opened", "refused"}),
         Moves(p, place), inMain[p] \in {"off", "opened", "unlocked", "servingAlone", "refused"},
         told[p].own = Nobody \/ place = "killed", UNCHANGED <<owner, file, told>>
  PROVE  InstInv'
<1>1. /\ InstTypes' /\ inMain'[p] = place
      /\ \A q \in Procs \ {p} : inMain'[q] = inMain[q]
  BY Moved, Zenon DEF InstInv, InstTypes
<1>2. owner # p
  BY InstanceConfig DEF InstInv, LockInv, Owning
<1>3. LockInv'
  BY <1>1, <1>2, ZenonT(30) DEF InstInv, LockInv, InstTypes
<1>4. ASSUME NEW q \in Procs PROVE ReportInv(q)'
  <2>1. told[q].by \in Procs \cup {Nobody} /\ told[q].own \in Procs \cup {Nobody}
    BY DEF InstInv, InstTypes, Reports
  <2>2. told[q].by # Nobody => inMain'[told[q].by] \notin {"off", "opened"}
    BY <1>1, <2>1, ZenonT(30) DEF InstInv, ReportInv
  <2>3. owner # Nobody => inMain'[owner] = inMain[owner]
    BY <1>1, <1>2, ZenonT(30) DEF InstInv, InstTypes
  <2>4. CASE q = p
    BY <1>1, <2>2, <2>4, Zenon DEF InstInv, ReportInv, Over
  <2>5. CASE q # p
    BY <1>1, <2>2, <2>3, <2>5, ZenonT(30) DEF InstInv, ReportInv
  <2> QED BY <2>4, <2>5, Zenon
<1> QED BY <1>1, <1>3, <1>4, Zenon DEF InstInv

\* The owner goes on to its next place.
LEMMA OwnerInv ==
  ASSUME InstInv, NEW p \in Procs, NEW place \in Owning, inMain[p] \in Owning,
         Moves(p, place), UNCHANGED <<owner, told>>, file' \in Pids,
         inMain[p] \notin {"locked", "cleared"} =>
           file' = file /\ place \in {"named", "starting", "serving"}
  PROVE  InstInv'
<1>1. /\ InstTypes' /\ inMain'[p] = place
      /\ \A q \in Procs \ {p} : inMain'[q] = inMain[q]
  BY Moved DEF InstInv, InstTypes, InstPlaces
<1>2. owner = p /\ p # Nobody
  BY InstanceConfig DEF InstInv, LockInv
<1>3. LockInv'
  BY <1>1, <1>2, ZenonT(30) DEF InstInv, LockInv
<1>4. ASSUME NEW q \in Procs PROVE ReportInv(q)'
  <2>1. told[q].by \in Procs \cup {Nobody} /\ told[q].own \in Procs \cup {Nobody}
    BY DEF InstInv, InstTypes, Reports
  <2>2. told[q].by # Nobody => inMain'[told[q].by] \notin {"off", "opened"}
    BY <1>1, <2>1, ZenonT(30) DEF InstInv, ReportInv, Owning
  <2>3. CASE q = p
    BY <1>1, <2>2, <2>3, Zenon DEF InstInv, ReportInv, Over, Owning
  <2>4. CASE q # p
    <3>1. /\ inMain[q] = "refused" /\ told[q].own # Nobody /\ owner = told[q].own =>
               file' = owner /\ inMain'[owner] \in {"named", "starting", "serving"}
      BY <1>1, <1>2, ZenonT(40) DEF InstInv, ReportInv
    <3> QED BY <1>1, <2>2, <2>4, <3>1, ZenonT(30) DEF InstInv, ReportInv
  <2> QED BY <2>3, <2>4
<1> QED BY <1>1, <1>3, <1>4, Zenon DEF InstInv

\* A process ends, and the kernel lets go of its lock.
LEMMA ExitInv ==
  ASSUME InstInv, NEW p \in Procs, NEW place \in Over, Moves(p, place), Released(p),
         told[p].own = Nobody \/ place = "killed", UNCHANGED <<file, told>>
  PROVE  InstInv'
<1>1. /\ InstTypes' /\ inMain'[p] = place
      /\ \A q \in Procs \ {p} : inMain'[q] = inMain[q]
  BY Moved, Zenon DEF InstInv, InstTypes, InstPlaces, Released
<1>2. /\ owner' # Nobody => owner' = owner /\ owner # p
      /\ owner' = owner \/ owner' = Nobody
      /\ owner # p => owner' = owner
  BY Zenon DEF Released
<1>3. LockInv'
  <2>1. owner' # Nobody => inMain'[owner'] \in Owning
    BY <1>1, <1>2, ZenonT(30) DEF InstInv, LockInv, InstTypes
  <2>2. ASSUME NEW q \in Procs, inMain'[q] \in Owning PROVE owner' = q
    <3>1. q # p
      BY <1>1, <2>2 DEF Owning, Over
    <3> QED BY <1>1, <1>2, <2>2, <3>1, ZenonT(30) DEF InstInv, LockInv
  <2> QED BY <2>1, <2>2 DEF LockInv
<1>4. ASSUME NEW q \in Procs PROVE ReportInv(q)'
  <2>1. told[q].by \in Procs \cup {Nobody} /\ told[q].own \in Procs \cup {Nobody}
    BY DEF InstInv, InstTypes, Reports
  <2>2. told[q].by # Nobody => inMain'[told[q].by] \notin {"off", "opened"}
    BY <1>1, <2>1, ZenonT(30) DEF InstInv, ReportInv, Over
  <2>3. CASE q = p
    BY <1>1, <2>2, <2>3 DEF InstInv, ReportInv, Over
  <2>4. CASE q # p
    <3>1. told[q].own # Nobody /\ owner' = told[q].own =>
            owner' = owner /\ inMain'[owner] = inMain[owner]
      BY <1>1, <1>2, <2>1, ZenonT(30)
    <3> QED BY <1>1, <2>2, <2>4, <3>1, ZenonT(30) DEF InstInv, ReportInv
  <2> QED BY <2>3, <2>4
<1> QED BY <1>1, <1>3, <1>4, ZenonT(40) DEF InstInv

\* A process before SetLock is in nobody's report and has none of its own.
LEMMA Unseen ==
  ASSUME InstInv, NEW p \in Procs, inMain[p] \in {"off", "opened"}
  PROVE  /\ \A q \in Procs : told[q].by # p /\ told[q].own # p
         /\ told[p].own = Nobody /\ owner # p
<1>1. p # Nobody
  BY InstanceConfig
<1>2. \A q \in Procs : told[q].by # p
  BY <1>1, ZenonT(30) DEF InstInv, ReportInv
<1>3. \A q \in Procs : told[q].own # p
  BY <1>1, <1>2, ZenonT(30) DEF InstInv, ReportInv
<1>4. told[p].own = Nobody
  BY DEF InstInv, ReportInv, Over
<1>5. owner # p
  BY <1>1 DEF InstInv, LockInv, Owning
<1> QED BY <1>2, <1>3, <1>4, <1>5

LEMMA OpenInv == ASSUME InstInv, NEW p \in Procs, inMain[p] = "off", Moves(p, "opened"),
                        UNCHANGED <<owner, file, told>>
                 PROVE  InstInv'
<1>1. /\ InstTypes' /\ inMain'[p] = "opened"
      /\ \A q \in Procs \ {p} : inMain'[q] = inMain[q]
  BY Moved DEF InstInv, InstTypes, InstPlaces
<1>2. /\ \A q \in Procs : told[q].by # p /\ told[q].own # p
      /\ told[p].own = Nobody /\ owner # p
  BY Unseen
<1>3. LockInv'
  <2>1. "opened" \notin Owning
    BY DEF Owning
  <2> QED BY <1>1, <1>2, <2>1, ZenonT(30) DEF InstInv, LockInv, InstTypes
<1>4. ASSUME NEW q \in Procs PROVE ReportInv(q)'
  <2>1. told[q].by \in Procs \cup {Nobody} /\ owner \in Procs \cup {Nobody}
    BY DEF InstInv, InstTypes, Reports
  <2>2. told[q].by # Nobody => inMain'[told[q].by] = inMain[told[q].by]
    BY <1>1, <1>2, <2>1, ZenonT(30)
  <2>3. owner # Nobody => inMain'[owner] = inMain[owner]
    BY <1>1, <1>2, <2>1, ZenonT(30)
  <2>4. CASE q = p
    BY <1>1, <1>2, <2>2, <2>4, ZenonT(30) DEF InstInv, ReportInv
  <2>5. CASE q # p
    BY <1>1, <2>2, <2>3, <2>5, ZenonT(30) DEF InstInv, ReportInv
  <2> QED BY <2>4, <2>5
<1> QED BY <1>1, <1>3, <1>4 DEF InstInv

LEMMA GrantInv == ASSUME InstInv, NEW p \in Procs, inMain[p] = "opened", owner = Nobody,
                         owner' = p, Moves(p, "locked"), UNCHANGED <<file, told>>
                  PROVE  InstInv'
<1>1. /\ InstTypes' /\ inMain'[p] = "locked"
      /\ \A q \in Procs \ {p} : inMain'[q] = inMain[q]
  BY Moved DEF InstInv, InstTypes, InstPlaces, Owning
<1>2. /\ \A q \in Procs : told[q].by # p /\ told[q].own # p
      /\ told[p].own = Nobody
  BY Unseen
<1>3. LockInv'
  <2>1. \A q \in Procs : inMain[q] \notin Owning
    BY InstanceConfig DEF InstInv, LockInv
  <2> QED BY <1>1, <2>1 DEF LockInv, Owning
<1>4. ASSUME NEW q \in Procs PROVE ReportInv(q)'
  <2>1. told[q].by \in Procs \cup {Nobody}
    BY DEF InstInv, InstTypes, Reports
  <2>2. told[q].by # Nobody => inMain'[told[q].by] = inMain[told[q].by]
    BY <1>1, <1>2, <2>1, ZenonT(30)
  <2>3. CASE q = p
    BY <1>1, <1>2, <2>2, <2>3, ZenonT(30) DEF InstInv, ReportInv
  <2>4. CASE q # p
    BY <1>1, <1>2, <2>2, <2>4, ZenonT(30) DEF InstInv, ReportInv
  <2> QED BY <2>3, <2>4
<1> QED BY <1>1, <1>3, <1>4 DEF InstInv

\* A process that does not own the lock moves and files its report.
LEMMA Reported ==
  ASSUME InstInv, NEW p \in Procs, NEW place \in {"refused", "exited"}, NEW r \in Reports,
         Moves(p, place), inMain[p] \in {"opened", "refused"}, UNCHANGED <<owner, file>>,
         told' = [told EXCEPT ![p] = r],
         inMain[p] = "opened" => \A q \in Procs : told[q].by # p,
         r.by # Nobody => inMain[r.by] \notin {"off", "opened"},
         place = "refused" => r.by # Nobody,
         r.own # Nobody => r.own = r.by,
         place = "refused" /\ r.own # Nobody /\ owner = r.own =>
           file = owner /\ inMain[owner] \in {"named", "starting", "serving"},
         place = "exited" /\ r.own # Nobody => r.pid = r.own
  PROVE  InstInv'
<1>1. /\ inMain' \in [Procs -> InstPlaces] /\ inMain'[p] = place
      /\ \A q \in Procs \ {p} : inMain'[q] = inMain[q]
  BY DEF InstInv, InstTypes, Moves, InstPlaces, Over
<1>2. /\ told' \in [Procs -> Reports] /\ told'[p] = r
      /\ \A q \in Procs \ {p} : told'[q] = told[q]
  BY Zenon DEF InstInv, InstTypes
<1>3. owner # p
  BY InstanceConfig DEF InstInv, LockInv, Owning
<1>4. LockInv'
  <2>1. place \notin Owning
    BY DEF Owning
  <2> QED BY <1>1, <1>3, <2>1, ZenonT(30) DEF InstInv, LockInv, InstTypes
<1>5. owner # Nobody => inMain'[owner] = inMain[owner]
  BY <1>1, <1>3, Zenon DEF InstInv, InstTypes
<1>6. ASSUME NEW q \in Procs PROVE ReportInv(q)'
  <2>1. CASE q = p
    <3>1. r.by \in Procs \cup {Nobody}
      BY DEF Reports
    <3>2. r.by # Nobody => inMain'[r.by] \notin {"off", "opened"}
      BY <1>1, <3>1, ZenonT(30)
    <3>3. place \in Over \cup {"refused"}
      BY DEF Over
    <3> QED BY <1>1, <1>2, <1>5, <2>1, <3>2, <3>3, InstanceConfig, ZenonT(30) DEF ReportInv
  <2>2. CASE q # p
    <3>1. told[q].by \in Procs \cup {Nobody}
      BY DEF InstInv, InstTypes, Reports
    <3>2. told[q].by # Nobody => inMain'[told[q].by] \notin {"off", "opened"}
      BY <1>1, <3>1, ZenonT(30) DEF InstInv, ReportInv
    <3> QED BY <1>1, <1>2, <1>5, <2>2, <3>2, InstanceConfig, ZenonT(30) DEF InstInv, ReportInv
  <2> QED BY <2>1, <2>2
<1> QED BY <1>1, <1>2, <1>4, <1>6, Zenon DEF InstInv, InstTypes

LEMMA RefuseInv ==
  ASSUME InstInv, NEW p \in Procs, inMain[p] = "opened", owner # Nobody, Moves(p, "refused"),
         told' = [told EXCEPT ![p].by = owner,
                              ![p].own = IF Named THEN owner ELSE Nobody],
         UNCHANGED <<owner, file>>
  PROVE  InstInv'
<1> DEFINE r == [told[p] EXCEPT !.by = owner, !.own = IF Named THEN owner ELSE Nobody]
<1>1. told' = [told EXCEPT ![p] = r]
  BY Zenon DEF InstInv, InstTypes
<1>2. /\ r \in Reports /\ r.by = owner /\ r.own \in {owner, Nobody}
      /\ r.own # Nobody => Named
  BY Zenon DEF InstInv, InstTypes, Reports
<1>3. owner # p /\ \A q \in Procs : told[q].by # p
  BY Unseen
<1>4. inMain[owner] \notin {"off", "opened"}
  BY DEF InstInv, LockInv, Owning
<1> HIDE DEF r
<1> QED BY <1>1, <1>2, <1>3, <1>4, Reported, Zenon DEF Named

LEMMA ReadInv == ASSUME InstInv, NEW p \in Procs, ReadPid(p) PROVE InstInv'
<1> DEFINE mine == told[p].own
           r == [told[p] EXCEPT !.pid = file, !.own = IF mine = owner THEN mine ELSE Nobody]
<1>1. /\ told' = [told EXCEPT ![p] = r]
      /\ inMain[p] = "refused" /\ Moves(p, "exited") /\ UNCHANGED <<owner, file>>
  BY Zenon DEF InstInv, InstTypes, ReadPid
<1>2. /\ r \in Reports /\ r.by = told[p].by /\ r.pid = file
      /\ r.own # Nobody => r.own = mine /\ mine = owner /\ mine # Nobody
  BY ZenonT(40) DEF InstInv, InstTypes, Reports
<1>3. /\ told[p].by # Nobody => inMain[told[p].by] \notin {"off", "opened"}
      /\ mine # Nobody => mine = told[p].by
      /\ mine # Nobody /\ owner = mine => file = owner
  BY <1>1 DEF InstInv, ReportInv
<1> HIDE DEF r, mine
<1> QED BY <1>1, <1>2, <1>3, Reported, Zenon

LEMMA InstNextInv == InstInv /\ [InstNext]_instVars => InstInv'
<1> SUFFICES ASSUME InstInv, [InstNext]_instVars PROVE InstInv'
  OBVIOUS
<1>1. CASE UNCHANGED instVars
  BY <1>1, ZenonT(30) DEF instVars, InstInv, InstTypes, LockInv, ReportInv
<1>2. ASSUME NEW p \in Procs, ValidateOnly(p) PROVE InstInv'
  <2>1. "exited" \in InstPlaces \ (Owning \cup {"off", "opened", "refused"})
    BY Zenon DEF InstPlaces, Owning, Over
  <2> QED BY <1>2, <2>1, Unseen, AsideInv DEF ValidateOnly
<1>3. ASSUME NEW p \in Procs, Open(p) PROVE InstInv'
  <2>1. "unlocked" \in InstPlaces \ (Owning \cup {"off", "opened", "refused"})
    BY DEF InstPlaces, Owning, Over
  <2> QED BY <1>3, <2>1, Unseen, AsideInv, OpenInv, Zenon DEF Open
<1>4. ASSUME NEW p \in Procs, SetLock(p) PROVE InstInv'
  <2>1. "unlocked" \in InstPlaces \ (Owning \cup {"off", "opened", "refused"})
    BY DEF InstPlaces, Owning, Over
  <2>2. CASE Moves(p, "unlocked") /\ UNCHANGED <<owner, told>>
    BY <1>4, <2>1, <2>2, Unseen, AsideInv DEF SetLock
  <2>3. CASE owner = Nobody /\ owner' = p /\ Moves(p, "locked") /\ UNCHANGED told
    BY <1>4, <2>3, GrantInv DEF SetLock
  <2> QED BY <1>4, <2>2, <2>3, RefuseInv DEF SetLock
<1>5. ASSUME NEW p \in Procs, Truncate(p) PROVE InstInv'
  BY <1>5, OwnerInv DEF Truncate, Owning, Pids, InstInv, InstTypes
<1>6. ASSUME NEW p \in Procs, WritePid(p) PROVE InstInv'
  BY <1>6, OwnerInv, Zenon DEF WritePid, Owning, Pids, InstInv, InstTypes
<1>7. ASSUME NEW p \in Procs, inMain[p] # "refused" PROVE told[p].own = Nobody \/ inMain[p] \in Over
  BY <1>7 DEF InstInv, ReportInv
<1>8. ASSUME NEW p \in Procs, LoadConfig(p) PROVE InstInv'
  <2>1. told[p].own = Nobody
    BY <1>7, <1>8 DEF LoadConfig, Over
  <2>2. CASE Moves(p, "exited") /\ Released(p)
    BY <1>8, <2>1, <2>2, ExitInv DEF LoadConfig, Over
  <2>3. CASE inMain[p] = "unlocked" /\ Moves(p, "servingAlone") /\ UNCHANGED owner
    <3>1. "servingAlone" \in InstPlaces \ (Owning \cup {"off", "opened", "refused"})
      BY DEF InstPlaces, Owning, Over
    <3> QED BY <1>8, <2>1, <2>3, <3>1, AsideInv DEF LoadConfig
  <2>4. CASE inMain[p] \in {"named", "starting"} /\ Moves(p, "serving") /\ UNCHANGED owner
    BY <1>8, <2>4, OwnerInv DEF LoadConfig, Owning, InstInv, InstTypes
  <2> QED BY <1>8, <2>2, <2>3, <2>4 DEF LoadConfig
<1>9. ASSUME NEW p \in Procs, Ends(p) PROVE InstInv'
  <2>1. told[p].own = Nobody
    BY <1>7, <1>9 DEF Ends, Over
  <2> QED BY <1>9, <2>1, ExitInv DEF Ends, Over
<1>10. ASSUME NEW p \in Procs, Kill(p) PROVE InstInv'
  BY <1>10, ExitInv DEF Kill, Over
<1> QED
  BY <1>1, <1>2, <1>3, <1>4, <1>5, <1>6, <1>8, <1>9, <1>10, ReadInv, ZenonT(30)
     DEF InstNext, StartStep

\* The lock is never left behind by a process that ended, however it ended,
\* and at most one process serves with it (acquire_at, main).
THEOREM OneInstance == InstSpec => [](InstTypeOK /\ OneServes)
<1>1. ASSUME InstInv PROVE InstTypeOK
  <2>1. owner # Nobody => Running(owner)
    BY <1>1 DEF InstInv, LockInv, Running, Owning, Over
  <2> QED BY <1>1, <2>1 DEF InstInv, InstTypes, InstTypeOK, Pids
<1>2. ASSUME InstInv PROVE OneServes
  <2>1. \A p \in Procs : inMain[p] = "serving" => p = owner
    BY <1>2 DEF InstInv, LockInv, Owning
  <2> QED BY <2>1, Zenon DEF OneServes
<1> QED BY <1>1, <1>2, InstInitInv, InstNextInv, PTL DEF InstSpec

\* A refused process is refused by a process that runs, and the pid it prints
\* is that process's if it was written and its owner stayed until the read
\* (acquire_at reads the file after F_SETLK has failed).
THEOREM RefusedByOwner == InstSpec => []RefusedByTheOwner
<1>1. ASSUME InstInv PROVE RefusedByTheOwner
  BY <1>1, ZenonT(30) DEF InstInv, ReportInv, RefusedByTheOwner
<1> QED BY <1>1, InstInitInv, InstNextInv, PTL DEF InstSpec

\* At most one process serves with the lock, and the others are told who it is
\* (main and acquire_at, for every set of processes).
THEOREM InstanceIsSingle == InstSpec => []SingleInstance
  BY OneInstance, RefusedByOwner, PTL DEF SingleInstance

=============================================================================
