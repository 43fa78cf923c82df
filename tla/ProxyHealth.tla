----------------------------- MODULE ProxyHealth -----------------------------
(***************************************************************************)
(* The request path that couples three components: the proxy handler       *)
(* (src/proxy/handler.rs), the round-robin balancers of the services       *)
(* (src/balancer/round_robin.rs, src/service/manager.rs) and the passive   *)
(* health checker (module PassiveHealth), with hot reload (SharedState in  *)
(* src/server/mod.rs) replacing the balancers but not the checker.         *)
(*                                                                         *)
(* A request is a thread.  Between two of its steps any other may run: the *)
(* balancer is a set of atomics, and record_response and                   *)
(* apply_health_change are two critical sections with nothing held between *)
(* them.  A server is named by its index, 0 .. len - 1, as in the code.    *)
(***************************************************************************)
EXTENDS PassiveHealth, Sequences

CONSTANTS
    Services,   \* names of the load-balanced services
    Servers,    \* Servers[s]: the URLs of the service's server list
    Requests,   \* request slots: how many handlers run at a time
    MaxGen      \* bound on generations: MaxGen - 1 reloads

ASSUME ProxyConfig ==
    /\ Servers \in [Services -> Seq(Urls)]
    /\ MaxGen \in Nat \ {0}

VARIABLES
    gen,      \* the generation of ServiceManager in SharedState.services
    flag,     \* flag[g][s][i]: RoundRobinBalancer.healthy[i]
    counter,  \* counter[g][s]: RoundRobinBalancer.counter modulo len
    req,      \* req[r]: the local state of a handler
    stable,   \* history: servers flagged healthy ever since r began to scan
    tracked   \* history: URLs whose every change went through this balancer

balancerVars == <<gen, flag, counter>>
vars == <<passiveVars, balancerVars, req, stable, tracked>>

Gens == 1 .. MaxGen
Size(s) == Len(Servers[s])
Indices(s) == 0 .. Size(s) - 1
Url(s, i) == Servers[s][i + 1]
UrlsOf(s) == {Url(s, i) : i \in Indices(s)}

(* find_server_index: the first position holding the URL. *)
FindServerIndex(s, u) ==
    CHOOSE i \in Indices(s) :
        Url(s, i) = u /\ \A j \in 0 .. i - 1 : Url(s, j) # u

Idle == [pc |-> "idle"]

Scanning(r) == req[r].pc = "scan"
Awaiting(r) == req[r].pc = "sent"
Applying(r) == req[r].pc = "apply"

UrlOf(r) == Url(req[r].svc, req[r].idx)

(* Handlers that recorded a change of u and have not applied it yet. *)
Pending(u) == {r \in Requests : Applying(r) /\ UrlOf(r) = u}

NewFlags == [s \in Services |-> [i \in Indices(s) |-> TRUE]]
NewCounters == [s \in Services |-> 0]

-----------------------------------------------------------------------------
Init ==
    /\ PassiveInit
    /\ gen = 1
    /\ flag = [g \in Gens |-> NewFlags]
    /\ counter = [g \in Gens |-> NewCounters]
    /\ req = [r \in Requests |-> Idle]
    /\ stable = [r \in Requests |-> {}]
    /\ tracked = [g \in Gens |-> [s \in Services |-> UrlsOf(s)]]

(***************************************************************************)
(* A handler loads the current services and enters next_server.  Loading   *)
(* the snapshot and the fetch_add on its counter commute with every step   *)
(* of another thread, so they are one step.  A service with no server      *)
(* answers 503 and changes nothing.  Only counter modulo len is ever used. *)
(***************************************************************************)
Begin(r, s) ==
    /\ req[r].pc = "idle"
    /\ Size(s) > 0
    /\ req' = [req EXCEPT ![r] =
            [pc |-> "scan", gen |-> gen, svc |-> s,
             start |-> counter[gen][s], i |-> 0]]
    /\ counter' = [counter EXCEPT ![gen][s] = (@ + 1) % Size(s)]
    /\ stable' = [stable EXCEPT ![r] = {i \in Indices(s) : flag[gen][s][i]}]
    /\ UNCHANGED <<passiveVars, gen, flag, tracked>>

(* The server the loop of next_server looks at in its i-th iteration. *)
Candidate(r) == (req[r].start + req[r].i) % Size(req[r].svc)

Send(r, i, fallback) ==
    req' = [req EXCEPT ![r] =
        [pc |-> "sent", gen |-> @.gen, svc |-> @.svc, idx |-> i,
         fallback |-> fallback]]

(* Mutant: the loop stops one server short. *)
ProbeSkipsLast(r) ==
    /\ Scanning(r)
    /\ LET q == req[r] IN
       IF q.i + 1 < Size(q.svc)
       THEN IF flag[q.gen][q.svc][Candidate(r)]
            THEN Send(r, Candidate(r), FALSE)
            ELSE req' = [req EXCEPT ![r].i = @ + 1]
       ELSE Send(r, q.start % Size(q.svc), TRUE)
    /\ UNCHANGED <<passiveVars, balancerVars, stable, tracked>>

(* One iteration of the scan: one load of a healthy flag. *)
Probe(r) ==
    /\ Scanning(r)
    /\ LET q == req[r] IN
       IF flag[q.gen][q.svc][Candidate(r)]
       THEN Send(r, Candidate(r), FALSE)
       ELSE IF q.i + 1 < Size(q.svc)
       THEN req' = [req EXCEPT ![r].i = @ + 1]
       ELSE Send(r, q.start % Size(q.svc), TRUE)
    /\ UNCHANGED <<passiveVars, balancerVars, stable, tracked>>

(***************************************************************************)
(* The backend answers, fails or times out, and the outcome is recorded.   *)
(* A change is left to be applied by a later step of the same handler.     *)
(***************************************************************************)
StillTracked(r, u, change) ==
    [g \in Gens |-> [s \in Services |->
        IF \/ change = "NoChange"
           \/ g = req[r].gen /\ s = req[r].svc /\ Pending(u) = {}
        THEN tracked[g][s]
        ELSE tracked[g][s] \ {u}]]

Respond(r, failed) ==
    /\ Awaiting(r)
    /\ LET u == UrlOf(r)
           change == ChangeOf(backends[u], Recorded(backends[u], failed))
       IN  /\ RecordResponse(u, failed)
           /\ req' = [req EXCEPT ![r] =
                 IF change = "NoChange" THEN Idle
                 ELSE [pc |-> "apply", gen |-> @.gen, svc |-> @.svc,
                       idx |-> @.idx, change |-> change]]
           /\ tracked' = StillTracked(r, u, change)
    /\ stable' = [stable EXCEPT ![r] = {}]
    /\ UNCHANGED balancerVars

(***************************************************************************)
(* The handler ends without recording anything: a WebSocket upgrade, a     *)
(* request that could not be rebuilt, or a client that went away, which    *)
(* drops the future at its await.                                          *)
(***************************************************************************)
Abandon(r) ==
    /\ Awaiting(r)
    /\ req' = [req EXCEPT ![r] = Idle]
    /\ stable' = [stable EXCEPT ![r] = {}]
    /\ UNCHANGED <<passiveVars, balancerVars, tracked>>

(* Mutant: the flag of the server that answered, not of the first match. *)
ApplyAtIndex(r) ==
    /\ Applying(r)
    /\ LET q == req[r] IN
       flag' = [flag EXCEPT ![q.gen][q.svc][q.idx] = (q.change = "BecameHealthy")]
    /\ req' = [req EXCEPT ![r] = Idle]
    /\ UNCHANGED <<passiveVars, gen, counter, stable, tracked>>

(* apply_health_change: store the flag in the balancer of r's snapshot. *)
ApplyHealthChange(r) ==
    /\ Applying(r)
    /\ LET q   == req[r]
           i   == FindServerIndex(q.svc, UrlOf(r))
           now == q.change = "BecameHealthy"
       IN  /\ flag' = [flag EXCEPT ![q.gen][q.svc][i] = now]
           /\ stable' = [o \in Requests |->
                 IF Scanning(o) /\ req[o].gen = q.gen /\ req[o].svc = q.svc /\ ~now
                 THEN stable[o] \ {i} ELSE stable[o]]
    /\ req' = [req EXCEPT ![r] = Idle]
    /\ UNCHANGED <<passiveVars, gen, counter, tracked>>

(***************************************************************************)
(* SharedState::reload: a new ServiceManager, every flag healthy, every    *)
(* counter zero.  The passive checker is kept.  Handlers in flight go on   *)
(* with the snapshot they loaded.                                          *)
(***************************************************************************)
Reload ==
    /\ gen < MaxGen
    /\ gen' = gen + 1
    /\ tracked' = [tracked EXCEPT ![gen + 1] =
            [s \in Services |->
                {u \in UrlsOf(s) : IsHealthy(u) /\ Pending(u) = {}}]]
    /\ UNCHANGED <<passiveVars, flag, counter, req, stable>>

Tick ==
    /\ PassiveTick
    /\ UNCHANGED <<balancerVars, req, stable, tracked>>

Next ==
    \/ \E r \in Requests :
        \/ \E s \in Services : Begin(r, s)
        \/ Probe(r)
        \/ \E failed \in BOOLEAN : Respond(r, failed)
        \/ Abandon(r)
        \/ ApplyHealthChange(r)
    \/ Reload
    \/ Tick

Spec == Init /\ [][Next]_vars

(***************************************************************************)
(* A handler is a task the runtime keeps polling, and its await ends with  *)
(* an answer or with the request timeout: each of its steps is fair.       *)
(***************************************************************************)
HandlerStep(r) ==
    Probe(r) \/ (\E failed \in BOOLEAN : Respond(r, failed)) \/ ApplyHealthChange(r)

FairSpec == Spec /\ \A r \in Requests : WF_vars(HandlerStep(r))

(***************************************************************************)
(* As FairSpec, with time passing and clients that go on calling and do    *)
(* not always fail or give up.                                             *)
(***************************************************************************)
TrafficSpec ==
    /\ FairSpec
    /\ \A s \in Services : WF_vars(\E r \in Requests : Begin(r, s))
    /\ WF_vars(Tick)
    /\ SF_vars(\E r \in Requests : Respond(r, FALSE))

-----------------------------------------------------------------------------
ScanState ==
    [pc : {"scan"}, gen : Gens, svc : Services, start : Nat, i : Nat]
SentState ==
    [pc : {"sent"}, gen : Gens, svc : Services, idx : Nat, fallback : BOOLEAN]
ApplyState ==
    [pc : {"apply"}, gen : Gens, svc : Services, idx : Nat,
     change : {"BecameHealthy", "BecameUnhealthy"}]

RequestState == {Idle} \cup ScanState \cup SentState \cup ApplyState

(* What a handler holds points into the balancer it works with. *)
InRange(q, g) ==
    /\ q.pc # "idle" => q.gen <= g
    /\ q.pc = "scan" => q.start \in Indices(q.svc) /\ q.i \in Indices(q.svc)
    /\ q.pc \in {"sent", "apply"} => q.idx \in Indices(q.svc)

(* Shapes, and every index a handler or a balancer holds is in range. *)
TypeOK ==
    /\ PassiveTypeOK
    /\ gen \in Gens
    /\ flag \in [Gens -> [Services -> UNION {[Indices(s) -> BOOLEAN] : s \in Services}]]
    /\ \A g \in Gens, s \in Services : flag[g][s] \in [Indices(s) -> BOOLEAN]
    /\ counter \in [Gens -> [Services -> Nat]]
    /\ \A g \in Gens, s \in Services : Size(s) > 0 => counter[g][s] < Size(s)
    /\ req \in [Requests -> RequestState]
    /\ \A r \in Requests : InRange(req[r], gen)
    /\ stable \in [Requests -> SUBSET Nat]
    /\ tracked \in [Gens -> [Services -> SUBSET Urls]]

(***************************************************************************)
(* next_server falls back to an unhealthy server only if no server was     *)
(* flagged healthy throughout its scan, whatever other handlers mark in    *)
(* the meantime: the loop of round_robin.rs:34 visits every index once.    *)
(***************************************************************************)
FallbackJustified ==
    \A r \in Requests : Awaiting(r) /\ req[r].fallback => stable[r] = {}

(***************************************************************************)
(* Where the two copies of a backend's health can part.  As long as every  *)
(* change of u was recorded by a handler of this very balancer, and never  *)
(* two at a time, the flag the balancer routes by is the passive verdict   *)
(* whenever no change of u is waiting to be applied.  Only an overlap of   *)
(* two changes, a change seen by another balancer (another service or an   *)
(* older generation), or a reload while the backend is down breaks it.     *)
(***************************************************************************)
FlagTracksVerdict ==
    \A g \in 1 .. gen, s \in Services : \A u \in tracked[g][s] :
        Pending(u) = {} => flag[g][s][FindServerIndex(s, u)] = IsHealthy(u)

(* Every request a handler began comes to an end. *)
RequestsComplete == \A r \in Requests : req[r].pc # "idle" ~> req[r].pc = "idle"

(***************************************************************************)
(* "All servers unhealthy, return first one anyway (the health checker     *)
(* will eventually mark them healthy)" (round_robin.rs:41): when requests  *)
(* stop failing, a service does not stay for ever with all of its servers  *)
(* flagged unhealthy.                                                      *)
(***************************************************************************)
GoodAnswer == ~\E r \in Requests : Respond(r, TRUE)

AllDownRecovers ==
    <>[][GoodAnswer]_vars =>
        \A s \in Services : []<>(\E i \in Indices(s) : flag[gen][s][i])

(***************************************************************************)
(* "Recovery interval - time to wait before retrying an unhealthy backend" *)
(* (passive.rs:28): a backend that can_try accepts again is retried.       *)
(***************************************************************************)
RetriedAfterInterval ==
    \A u \in Urls :
        ~IsHealthy(u) /\ CanTry(u)
            ~> IsHealthy(u) \/ \E r \in Requests : Awaiting(r) /\ UrlOf(r) = u
=============================================================================
