---------------------------- MODULE NodeRegistry ----------------------------
(***************************************************************************)
(* Cluster membership: the registration, heartbeat, drain and shutdown of  *)
(* cluster/manager.rs, the drain endpoints of admin/api.rs, and the node   *)
(* operations of store/valkey.rs.  Every Redis command is one step, so an  *)
(* operation that reads a record and writes it back can be overtaken.  A   *)
(* command may fail; the operation then ends where the code's `?`, `.ok()` *)
(* or warning ends it.  Ages replace time stamps: Tick makes every record  *)
(* older and expires the keys whose 60 s are over.                         *)
(***************************************************************************)
EXTENDS Integers, FiniteSets

CONSTANTS
  Peers,         \* node ids
  Absent,        \* no record under a node's key, or nothing in hand
  KeyTtl,        \* set_ex(.., 60), in ticks
  NodeTimeout,   \* ClusterConfig.node_timeout, in ticks
  Ahead,         \* nodes whose clock is a tick ahead of the others
  TimeWidth      \* 2^64: where the difference of two u64 stamps wraps

ASSUME RegistryConfig ==
  /\ Absent \notin Peers /\ Ahead \subseteq Peers
  /\ KeyTtl \in Nat \ {0} /\ NodeTimeout \in Nat
  /\ TimeWidth \in Nat /\ KeyTtl < TimeWidth /\ NodeTimeout < TimeWidth

VARIABLES
  rec,       \* the record under each node's key
  left,      \* ticks until that key expires
  members,   \* nodes_set
  life,      \* where each node's manager is
  drains,    \* is_draining
  beat,      \* the record a heartbeat has read and is about to write back
  op,        \* the node_set_status call of a drain request
  notice,    \* a drain event about each node: none, or sent and on its way to it
  scan,      \* the get_active_nodes call of one node
  silent     \* history: ticks since a stopped node's record was last written

regVars == <<rec, left, members, life, drains, beat, op, notice, scan, silent>>

Status == {"Active", "Draining"}

\* NodeInfo: the status and the age of last_heartbeat on the reader's clock,
\* which is negative for a stamp of a clock that is ahead; kept up to MaxAge.
MaxAge == IF KeyTtl > NodeTimeout THEN KeyTtl ELSE NodeTimeout

Record == [status : Status, age : -1 .. MaxAge]

\* current_time_millis() on node n.
Stamp(n) == IF n \in Ahead THEN -1 ELSE 0

Idle == [at |-> "idle", node |-> Absent, copy |-> Absent]

NoScan == [at |-> "idle", todo |-> {}, gone |-> Absent, dead |-> {}]

Up(n) == life[n] = "up"

RegInit ==
  /\ rec = [n \in Peers |-> Absent] /\ left = [n \in Peers |-> 0]
  /\ members = {}
  /\ life = [n \in Peers |-> "off"]
  /\ drains = [n \in Peers |-> FALSE]
  /\ beat = [n \in Peers |-> Absent]
  /\ op = Idle
  /\ notice = [n \in Peers |-> "none"]
  /\ scan = NoScan
  /\ silent = [n \in Peers |-> 0]

\* set_ex: the key's value and its full time to live.
Put(n, r) ==
  /\ rec' = [rec EXCEPT ![n] = r] /\ left' = [left EXCEPT ![n] = KeyTtl]
  /\ silent' = [silent EXCEPT ![n] = 0]

Drop(n) ==
  /\ rec' = [rec EXCEPT ![n] = Absent] /\ left' = [left EXCEPT ![n] = 0]
  /\ UNCHANGED silent
-----------------------------------------------------------------------------
\* Mutated forms of the operations below.

BeatTaskKeepsOn(n) == TRUE

\* The heartbeat loop runs until its receiver sees the shutdown signal.
BeatTaskRuns(n) == Up(n)

BeatRevives(n) ==
  /\ beat[n] # Absent
  /\ Put(n, [beat[n] EXCEPT !.status = "Active"])
  /\ beat' = [beat EXCEPT ![n] = Absent]
  /\ UNCHANGED <<members, life, drains, op, notice, scan>>

-----------------------------------------------------------------------------
\* ClusterManager::new, register_node: SET of an Active record ...
Register(n) ==
  /\ life[n] = "off"
  /\ drains' = [drains EXCEPT ![n] = FALSE]
  /\ notice' = [notice EXCEPT ![n] = "none"]
  /\ \/ /\ Put(n, [status |-> "Active", age |-> Stamp(n)])
        /\ life' = [life EXCEPT ![n] = "joining"]
     \/ UNCHANGED <<rec, left, silent, life>>
  /\ UNCHANGED <<members, beat, op, scan>>

\* ... then SADD; the tasks start when both have succeeded.
Join(n) ==
  /\ life[n] = "joining"
  /\ \/ /\ members' = members \cup {n}
        /\ life' = [life EXCEPT ![n] = "up"]
     \/ life' = [life EXCEPT ![n] = "off"] /\ UNCHANGED members
  /\ UNCHANGED <<rec, left, silent, drains, beat, op, notice, scan>>

\* node_heartbeat: GET; an absent record ends it.
BeatRead(n) ==
  /\ BeatTaskRuns(n) /\ beat[n] = Absent
  /\ rec[n] # Absent
  /\ beat' = [beat EXCEPT ![n] = [rec[n] EXCEPT !.age = Stamp(n)]]
  /\ UNCHANGED <<rec, left, silent, members, life, drains, op, notice, scan>>

\* ... then SET of the copy; a shutdown does not stop a beat under way.
BeatWrite(n) ==
  /\ beat[n] # Absent
  /\ Put(n, beat[n])
  /\ beat' = [beat EXCEPT ![n] = Absent]
  /\ UNCHANGED <<members, life, drains, op, notice, scan>>

BeatFail(n) ==
  /\ beat[n] # Absent
  /\ beat' = [beat EXCEPT ![n] = Absent]
  /\ UNCHANGED <<rec, left, silent, members, life, drains, op, notice, scan>>

\* drain_node: a request to the node itself is start_drain, which raises
\* the flag; one to another node, which is up, goes straight to the record.
DrainRequest(n, own) ==
  /\ op = Idle
  /\ own => Up(n)
  /\ drains' = [drains EXCEPT ![n] = @ \/ own]
  /\ op' = IF rec[n] = Absent THEN Idle
           ELSE [at |-> "write", node |-> n,
                 copy |-> [status |-> "Draining",
                           age |-> IF own THEN Stamp(n) ELSE 0]]
  /\ UNCHANGED <<rec, left, silent, members, life, beat, notice, scan>>

\* node_set_status: SET of the copy, then PUBLISH; each may fail.
StatusWrite ==
  /\ op.at = "write"
  /\ \/ /\ Put(op.node, op.copy)
        /\ op' = [at |-> "publish", node |-> op.node, copy |-> Absent]
     \/ op' = Idle /\ UNCHANGED <<rec, left, silent>>
  /\ UNCHANGED <<members, life, drains, beat, notice, scan>>

StatusPublish ==
  /\ op.at = "publish"
  /\ \/ Up(op.node) /\ notice' = [notice EXCEPT ![op.node] = "sent"]
     \/ UNCHANGED notice
  /\ op' = Idle
  /\ UNCHANGED <<rec, left, silent, members, life, drains, beat, scan>>

\* start_drain_listener: an event about another node is logged, one about
\* the node itself is dropped.
Listen(n) ==
  /\ Up(n) /\ notice[n] = "sent"
  /\ notice' = [notice EXCEPT ![n] = "none"]
  /\ UNCHANGED <<rec, left, silent, members, life, drains, beat, op, scan>>

\* shutdown: the signal ends the tasks, then DEL and SREM, errors ignored.
ShutdownNode(n) ==
  /\ Up(n)
  /\ life' = [life EXCEPT ![n] = "leaving"]
  /\ UNCHANGED <<rec, left, silent, members, drains, beat, op, notice, scan>>

DeregisterDel(n) ==
  /\ life[n] = "leaving"
  /\ \/ Drop(n) /\ life' = [life EXCEPT ![n] = "deleted"]
     \/ life' = [life EXCEPT ![n] = "off"] /\ UNCHANGED <<rec, left, silent>>
  /\ UNCHANGED <<members, drains, beat, op, notice, scan>>

DeregisterSrem(n) ==
  /\ life[n] = "deleted"
  /\ members' \in {members, members \ {n}}
  /\ life' = [life EXCEPT ![n] = "off"]
  /\ UNCHANGED <<rec, left, silent, drains, beat, op, notice, scan>>

\* The process dies; its beat under way is lost with it.
RegCrash(n) ==
  /\ life[n] # "off"
  /\ life' = [life EXCEPT ![n] = "off"]
  /\ beat' = [beat EXCEPT ![n] = Absent]
  /\ UNCHANGED <<rec, left, silent, members, drains, op, notice, scan>>

\* (now - last_heartbeat) in u64: a stamp from the future wraps round.
Elapsed(r) == r.age % TimeWidth

\* The filter of get_active_nodes.
Fresh(r) == Elapsed(r) < NodeTimeout

\* get_active_nodes: SMEMBERS ...
ScanStart ==
  /\ scan.at = "idle"
  /\ scan' = [NoScan EXCEPT !.at = "get", !.todo = members]
  /\ UNCHANGED <<rec, left, silent, members, life, drains, beat, op, notice>>

\* ... a GET for each member: the filter keeps it, or it leaves the set when
\* it has no record.  dead is the part of the answer DeadNotListed is about.
ScanGet(n) ==
  /\ scan.at = "get" /\ n \in scan.todo
  /\ scan' = [scan EXCEPT
        !.todo = @ \ {n},
        !.at = IF rec[n] = Absent THEN "srem" ELSE @,
        !.gone = IF rec[n] = Absent THEN n ELSE Absent,
        !.dead = IF rec[n] # Absent /\ Fresh(rec[n]) /\ silent[n] > NodeTimeout
                 THEN @ \cup {n} ELSE @]
  /\ UNCHANGED <<rec, left, silent, members, life, drains, beat, op, notice>>

ScanSrem ==
  /\ scan.at = "srem"
  /\ members' \in {members, members \ {scan.gone}}
  /\ scan' = [scan EXCEPT !.at = "get", !.gone = Absent]
  /\ UNCHANGED <<rec, left, silent, life, drains, beat, op, notice>>

\* The listing is over, or a GET of it failed.
ScanEnd ==
  /\ scan.at = "get"
  /\ scan' = NoScan
  /\ UNCHANGED <<rec, left, silent, members, life, drains, beat, op, notice>>

Older(r) == IF r = Absent THEN Absent
            ELSE [r EXCEPT !.age = IF @ < MaxAge THEN @ + 1 ELSE @]

\* Stopped, with no write of its record under way.
Stopped(n) == life[n] = "off" /\ beat[n] = Absent /\ op.node # n

\* A tick: keys expire, and stamps on the way to the store grow old too.
RegTick ==
  /\ rec' = [n \in Peers |-> IF left[n] =< 1 THEN Absent ELSE Older(rec[n])]
  /\ left' = [n \in Peers |-> IF left[n] = 0 THEN 0 ELSE left[n] - 1]
  /\ silent' = [n \in Peers |-> IF ~Stopped(n) THEN 0
                                ELSE IF silent[n] =< NodeTimeout THEN silent[n] + 1
                                ELSE silent[n]]
  /\ beat' = [n \in Peers |-> Older(beat[n])]
  /\ op' = [op EXCEPT !.copy = Older(@)]
  /\ UNCHANGED <<members, life, drains, notice, scan>>

RegNext ==
  \/ \E n \in Peers :
       \/ Register(n) \/ Join(n) \/ BeatRead(n) \/ BeatWrite(n) \/ BeatFail(n)
       \/ Listen(n) \/ ShutdownNode(n) \/ DeregisterDel(n) \/ DeregisterSrem(n)
       \/ RegCrash(n) \/ ScanGet(n)
       \/ \E own \in BOOLEAN : DrainRequest(n, own)
  \/ StatusWrite \/ StatusPublish
  \/ ScanStart \/ ScanSrem \/ ScanEnd \/ RegTick

ScanStep == ScanStart \/ ScanSrem \/ ScanEnd \/ \E n \in Peers : ScanGet(n)

LifeStep(n) == Join(n) \/ DeregisterDel(n) \/ DeregisterSrem(n)

RegSpec == RegInit /\ [][RegNext]_regVars

(***************************************************************************)
(* Time passes, an operation under way goes on, a listener takes what it   *)
(* is sent, and some node lists the nodes now and then.  A command that is *)
(* tried for ever does not fail for ever.                                  *)
(***************************************************************************)
RegFairSpec ==
  /\ RegSpec
  /\ WF_regVars(RegTick)
  /\ WF_regVars(StatusWrite \/ StatusPublish)
  /\ WF_regVars(ScanStep) /\ SF_regVars(ScanSrem /\ members' # members)
  /\ \A n \in Peers :
       /\ WF_regVars(LifeStep(n)) /\ WF_regVars(BeatWrite(n))
       /\ WF_regVars(Listen(n)) /\ SF_regVars(ScanGet(n))

-----------------------------------------------------------------------------

(***************************************************************************)
(* A node that has been down for more than node_timeout, with no write of  *)
(* its record since, is in no answer of get_active_nodes: the shutdown     *)
(* stops its heartbeats, and the filter and the expiry of its key agree.   *)
(***************************************************************************)
DeadNotListed == scan.dead = {}

(***************************************************************************)
(* A drain written by node_set_status is undone only by a heartbeat that   *)
(* had read the record before, or by the node starting again: nothing else *)
(* in the cluster turns a Draining record back to Active.                  *)
(***************************************************************************)
DrainUndoneByRaceOnly ==
  [][\A n \in Peers :
        /\ rec[n] # Absent /\ rec[n].status = "Draining"
        /\ rec'[n] # Absent /\ rec'[n].status = "Active"
        => \/ beat[n] # Absent /\ beat[n].status = "Active"
           \/ life[n] = "off" /\ life'[n] = "joining"]_regVars

(***************************************************************************)
(* A node that stopped, however it stopped, is forgotten: its record       *)
(* expires, because no task refreshes it any more, and the listings of the *)
(* others then take it out of nodes_set.  Requests to drain it must stop:  *)
(* each of them refreshes the record of the dead node.                     *)
(***************************************************************************)
LeaversForgotten ==
  \A n \in Peers :
    [](life[n] = "off" /\ op.node # n) ~> (rec[n] = Absent /\ n \notin members)

\* The listing and the records tell the truth: the dead are not listed, and a
\* drain is not undone but by the one race there is.
RecordsHonest == []DeadNotListed /\ DrainUndoneByRaceOnly
=============================================================================
