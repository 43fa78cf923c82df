---------------------------- MODULE ServerProofs ----------------------------
(***************************************************************************)
(* Proofs about the life of the server process: its reloads (HotReload)    *)
(* and its shutdown (ServerDrain), for any number of requests, writes and  *)
(* connections, any delays and any channel capacity.                       *)
(***************************************************************************)
EXTENDS ServerDrain, HotReload, FiniteSetTheorems, SequenceTheorems, TLAPS

-----------------------------------------------------------------------------
(* Graceful shutdown                                                       *)

(* Draining is the phase after the signal, and inflight is fixed by it. *)
PhaseOK ==
    /\ draining = (main # "running")
    /\ main = "running" => inflight = {} /\ late = {}
    /\ main \in {"running", "drain", "wait"} => ~timedOut

(***************************************************************************)
(* A connection in flight at the signal is never admitted again, and none  *)
(* is left once the shutdown path has seen the counter at zero.            *)
(***************************************************************************)
InflightOK ==
    /\ \A c \in inflight : task[c] \in {"serving", "done"}
    /\ main \in {"stopping", "stopped"} /\ ~timedOut => inflight \cap Serving = {}

DrainInv ==
    TypeOK /\ CountExact /\ PhaseOK /\ InflightOK /\ LateRefused

-----------------------------------------------------------------------------
LEMMA ServingFinite == IsFiniteSet(Serving)
BY DrainConfig, FS_Subset DEF Serving

(* The counter at zero means that nobody is being served. *)
LEMMA ZeroIsNobody ==
    ASSUME CountExact, active = 0
    PROVE  Serving = {}
BY ServingFinite, FS_EmptySet, Zenon DEF CountExact

LEMMA DrainInitInv == Init => DrainInv
<1> SUFFICES ASSUME Init PROVE DrainInv
  OBVIOUS
<1>1. Serving = {}
  BY DEF Init, Serving
<1>2. CountExact
  BY <1>1, FS_EmptySet DEF Init, CountExact
<1>3. TypeOK
  <2>1. elapsed \in 0 .. DrainTimeout /\ active \in Nat
    BY DrainConfig DEF Init
  <2>2. draining \in BOOLEAN /\ timedOut \in BOOLEAN /\ main \in MainStates
    BY Zenon DEF Init, MainStates
  <2>3. task \in [Conns -> TaskStates] /\ tunnel \in [Conns -> TunnelStates]
    BY DEF Init, TaskStates, TunnelStates
  <2> QED BY <2>1, <2>2, <2>3 DEF Init, TypeOK
<1>4. PhaseOK
  BY Zenon DEF Init, PhaseOK
<1> QED BY <1>2, <1>3, <1>4 DEF Init, DrainInv, InflightOK, LateRefused

(* A step that moves no task in or out of "serving" leaves the count exact. *)
LEMMA CountFrame ==
    ASSUME CountExact, UNCHANGED active,
           \A c \in Conns : (task'[c] = "serving") = (task[c] = "serving")
    PROVE  CountExact' /\ Serving' = Serving
<1>1. Serving' = Serving
  BY DEF Serving
<1> QED BY <1>1 DEF CountExact

LEMMA AcceptInv ==
    ASSUME DrainInv, NEW c \in Conns, Accept(c)
    PROVE  DrainInv'
<1>1. TypeOK' /\ CountExact' /\ Serving' = Serving
  BY CountFrame DEF DrainInv, TypeOK, TaskStates, Accept, trackerVars
<1> QED
  BY <1>1 DEF DrainInv, TypeOK, PhaseOK, InflightOK, LateRefused, Accept, trackerVars

LEMMA CheckDrainingInv ==
    ASSUME DrainInv, NEW c \in Conns, CheckDraining(c)
    PROVE  DrainInv'
<1>1. TypeOK' /\ CountExact' /\ Serving' = Serving
  BY CountFrame DEF DrainInv, TypeOK, TaskStates, CheckDraining, trackerVars, historyVars
<1> QED
  BY <1>1, Zenon DEF DrainInv, TypeOK, PhaseOK, InflightOK, LateRefused, CheckDraining,
     trackerVars, historyVars

(* fetch_add and the set of the served grow together. *)
LEMMA CountInv ==
    ASSUME DrainInv, NEW c \in Conns, Count(c)
    PROVE  DrainInv'
<1>1. TypeOK'
  BY DEF DrainInv, TypeOK, TaskStates, Count, historyVars
<1>2. Serving' = Serving \cup {c} /\ c \notin Serving
  BY DEF Serving, Count, DrainInv, TypeOK
<1>3. CountExact'
  BY <1>2, ServingFinite, FS_AddElement DEF CountExact, DrainInv, Count
<1>4. c \notin inflight /\ c \notin late
  BY DEF DrainInv, InflightOK, LateRefused, Count
<1> QED
  BY <1>1, <1>2, <1>3, <1>4
     DEF DrainInv, TypeOK, PhaseOK, InflightOK, LateRefused, Count, historyVars

(* connection_end: fetch_sub and the set of the served shrink together. *)
LEMMA EndInv ==
    ASSUME DrainInv, NEW c \in Conns, End(c)
    PROVE  DrainInv'
<1>1. Serving' = Serving \ {c} /\ c \in Serving
  BY DEF Serving, End, DrainInv, TypeOK
<1>2. Cardinality(Serving') = Cardinality(Serving) - 1 /\ Cardinality(Serving') \in Nat
  BY <1>1, ServingFinite, FS_RemoveElement, FS_CardinalityType
<1>3. CountExact' /\ active' \in Nat
  BY <1>2 DEF CountExact, DrainInv, End
<1>4. TypeOK'
  BY <1>3 DEF DrainInv, TypeOK, TaskStates, End, historyVars
<1> QED
  BY <1>1, <1>3, <1>4
     DEF DrainInv, TypeOK, PhaseOK, InflightOK, LateRefused, End, historyVars

(* What happens to tunnels, and the clock, touches no connection task. *)
LEMMA TunnelInv ==
    ASSUME DrainInv, NEW c \in Conns, Upgrade(c) \/ CloseTunnel(c)
    PROVE  DrainInv'
<1>1. UNCHANGED <<main, draining, active, task, elapsed, timedOut, inflight, late>>
  BY DEF Upgrade, CloseTunnel, trackerVars, historyVars
<1>2. TypeOK'
  BY <1>1 DEF DrainInv, TypeOK, TunnelStates, Upgrade, CloseTunnel
<1> QED
  BY <1>1, <1>2, CountFrame DEF DrainInv, PhaseOK, InflightOK, LateRefused

LEMMA StartDrainInv == DrainInv /\ StartDrain => DrainInv'
<1> SUFFICES ASSUME DrainInv, StartDrain PROVE DrainInv'
  OBVIOUS
<1>1. CountExact' /\ Serving' = Serving
  BY CountFrame DEF DrainInv, StartDrain
<1>2. TypeOK'
  BY DEF DrainInv, TypeOK, MainStates, StartDrain, Serving
<1> QED
  BY <1>1, <1>2, Zenon DEF DrainInv, PhaseOK, InflightOK, LateRefused, StartDrain, Serving

(* The two places that look at the counter before stopping. *)
LEMMA ShutdownStepInv ==
    ASSUME DrainInv, CheckActive \/ Poll \/ Stop \/ Tick
    PROVE  DrainInv'
<1>1. UNCHANGED <<draining, active, task, tunnel, inflight, late>>
  BY DEF CheckActive, Poll, Stop, Tick, trackerVars, historyVars
<1>2. CountExact' /\ Serving' = Serving
  BY <1>1, CountFrame DEF DrainInv
<1>3. CASE CheckActive
  <2>1. ~(active > 0) => Serving = {}
    BY ZeroIsNobody DEF DrainInv, TypeOK
  <2> QED
    BY <1>1, <1>2, <1>3, <2>1
       DEF DrainInv, TypeOK, MainStates, PhaseOK, InflightOK, LateRefused, CheckActive
<1>4. CASE Poll
  <2>1. active = 0 => Serving = {}
    BY ZeroIsNobody DEF DrainInv
  <2> QED
    BY <1>1, <1>2, <1>4, <2>1, Zenon
       DEF DrainInv, TypeOK, MainStates, PhaseOK, InflightOK, LateRefused, Poll
<1>5. CASE Stop
  BY <1>1, <1>2, <1>5
     DEF DrainInv, TypeOK, MainStates, PhaseOK, InflightOK, LateRefused, Stop
<1>6. CASE Tick
  BY <1>1, <1>2, <1>6, DrainConfig
     DEF DrainInv, TypeOK, PhaseOK, InflightOK, LateRefused, Tick
<1> QED BY <1>3, <1>4, <1>5, <1>6

LEMMA DrainStutterInv == DrainInv /\ UNCHANGED vars => DrainInv'
BY DEF DrainInv, TypeOK, CountExact, Serving, PhaseOK, InflightOK, LateRefused, vars,
   trackerVars, historyVars

LEMMA DrainNextInv == DrainInv /\ [Next]_vars => DrainInv'
BY AcceptInv, CheckDrainingInv, CountInv, EndInv, TunnelInv, StartDrainInv,
   ShutdownStepInv, DrainStutterInv DEF Next

-----------------------------------------------------------------------------
(***************************************************************************)
(* ConnectionTracker.active always equals the number of connections being  *)
(* served, whatever the interleaving of their tasks, and never wraps.      *)
(***************************************************************************)
THEOREM TrackerExact == Spec => [](TypeOK /\ CountExact)
<1>1. DrainInv => TypeOK /\ CountExact
  BY DEF DrainInv
<1> QED BY <1>1, DrainInitInv, DrainNextInv, PTL DEF Spec

(***************************************************************************)
(* A shutdown that ends before its deadline has served to the end every    *)
(* connection that was being served when it began.                         *)
(***************************************************************************)
THEOREM DrainServesInflight == Spec => []InflightServed
<1>1. DrainInv => InflightServed
  BY DEF DrainInv, InflightOK, InflightServed
<1> QED BY <1>1, DrainInitInv, DrainNextInv, PTL DEF Spec

(***************************************************************************)
(* connection_start turns away every connection accepted after the drain   *)
(* began.                                                                  *)
(***************************************************************************)
THEOREM DrainRefusesLate == Spec => []LateRefused
<1>1. DrainInv => LateRefused
  BY DEF DrainInv
<1> QED BY <1>1, DrainInitInv, DrainNextInv, PTL DEF Spec
-----------------------------------------------------------------------------
(* Hot reload                                                              *)

(***************************************************************************)
(* How far the current reload has come: the cells before the next store    *)
(* hold this reload, the others the one before.                            *)
(***************************************************************************)
Stored(n) == IF n THEN Len(log) ELSE Len(log) - 1

CellsOK ==
    /\ router = Stored(server # "router")
    /\ services = Stored(server \notin {"router", "services"})
    /\ middlewares = Stored(server \notin {"router", "services", "middlewares"})
    /\ server \in {"router", "services", "middlewares"} => Len(log) > 0

(* A cell is never older than when a request loaded it. *)
ViewOK ==
    \A r \in Requests : \A i \in DOMAIN view[r] : view[r][i] <= Cell(i)

ReloadInv == ReloadTypeOK /\ CellsOK /\ ViewOK /\ TearBounded

-----------------------------------------------------------------------------
(* While a reload is stored, no cell is more than one reload behind. *)
LEMMA CellsClose ==
    ASSUME ReloadTypeOK, CellsOK
    PROVE  \A i, j \in 1 .. 3 : i < j => Cell(i) <= Cell(j) + 1
BY SMTT(60) DEF ReloadTypeOK, CellsOK, Stored, Cell

(* What a request has loaded so far: at most three numbers of reloads. *)
LEMMA ViewFacts ==
    ASSUME ReloadTypeOK, NEW r \in Requests, NEW i \in DOMAIN view[r]
    PROVE  i \in 1 .. 3 /\ view[r][i] \in Nat
<1>1. view[r] \in Seq(0 .. Len(log)) /\ Len(view[r]) <= 3
  BY DEF ReloadTypeOK
<1>2. i \in 1 .. Len(view[r]) /\ Len(view[r]) \in Nat
  BY <1>1, LenProperties
<1>3. view[r][i] \in 0 .. Len(log)
  BY <1>1, <1>2, ElementOfSeq
<1> QED BY <1>1, <1>2, <1>3

LEMMA Positions ==
    ASSUME NEW n \in 1 .. 3
    PROVE  /\ \A i \in 1 .. n : i \in 1 .. n - 1 \/ i = n
           /\ \A i \in 1 .. n - 1 : i \in 1 .. 3 /\ i < n /\ i \in 1 .. n
           /\ \A i, j \in 1 .. n : i < j => i \in 1 .. n - 1
OBVIOUS

LEMMA EmptyView == Len(<<>>) <= 3 /\ DOMAIN <<>> = {}
OBVIOUS

LEMMA CellType == ASSUME ReloadTypeOK, NEW i PROVE Cell(i) \in Nat /\ Cell(i) <= Cell(i)
<1>1. router \in Nat /\ services \in Nat /\ middlewares \in Nat
  BY DEF ReloadTypeOK
<1>2. Cell(i) \in Nat
  BY <1>1 DEF Cell
<1> QED BY <1>2

LEMMA ReloadInitInv == ReloadInit => ReloadInv
<1> SUFFICES ASSUME ReloadInit PROVE ReloadInv
  OBVIOUS
<1>1. ReloadTypeOK
  <2>1. log \in Seq(Valid) /\ Len(log) = 0 /\ bus \in Seq(Valid) /\ Len(bus) = 0
    BY SMTT(60) DEF ReloadInit
  <2>2. watcher \in WatcherStates /\ server \in ServerStates /\ lagged \in BOOLEAN
    BY ZenonT(30) DEF ReloadInit, WatcherStates, ServerStates
  <2>3. view \in [Requests -> Seq(0 .. Len(log))] /\ \A r \in Requests : Len(view[r]) <= 3
    BY DEF ReloadInit
  <2>4. disk \in 0 .. MaxWrites /\ events \in Nat /\ age \in 0 .. Debounce /\ slept \in 0 .. Settle
    BY ReloadConfig DEF ReloadInit
  <2> QED BY <2>1, <2>2, <2>3, <2>4, ReloadConfig, SMTT(60) DEF ReloadInit, ReloadTypeOK
<1>2. CellsOK
  BY DEF ReloadInit, CellsOK, Stored
<1>3. \A r \in Requests : DOMAIN view[r] = {}
  BY SMTT(60) DEF ReloadInit
<1> QED BY <1>1, <1>2, <1>3, ZenonT(60) DEF ReloadInv, ViewOK, TearBounded

(* Steps of the file, the watcher and the channel. *)
LEMMA WatcherInv ==
    ASSUME ReloadInv, Write \/ SkipEvent \/ TakeEvent \/ Load \/ ReloadTick
    PROVE  ReloadInv'
<1>1. UNCHANGED <<server, log, router, services, middlewares, checked, view>>
  BY DEF Write, SkipEvent, TakeEvent, Load, ReloadTick, serverVars, cellVars
<1>2. CellsOK' /\ ViewOK' /\ TearBounded'
  BY <1>1, ZenonT(30) DEF ReloadInv, CellsOK, Stored, ViewOK, TearBounded, Cell
<1>3. disk' \in 0 .. MaxWrites /\ events' \in Nat
  <2>1. disk \in 0 .. MaxWrites /\ events \in Nat
    BY DEF ReloadInv, ReloadTypeOK
  <2>2. CASE Write
    BY <2>1, <2>2, ReloadConfig DEF Write
  <2>3. CASE SkipEvent \/ TakeEvent
    BY <2>1, <2>3 DEF SkipEvent, TakeEvent
  <2>4. CASE Load \/ ReloadTick
    BY <2>1, <2>4 DEF Load, ReloadTick, fileVars
  <2> QED BY <2>2, <2>3, <2>4
<1>4. watcher' \in WatcherStates /\ age' \in 0 .. Debounce /\ slept' \in 0 .. Settle
  <2>1. watcher \in WatcherStates /\ age \in 0 .. Debounce /\ slept \in 0 .. Settle
    BY ZenonT(30) DEF ReloadInv, ReloadTypeOK
  <2>2. CASE Write \/ SkipEvent
    BY <2>1, <2>2, ZenonT(30) DEF Write, SkipEvent, watcherVars
  <2>3. CASE TakeEvent
    BY <2>1, <2>3, ReloadConfig, SMTT(60) DEF TakeEvent, WatcherStates
  <2>4. CASE Load
    BY <2>1, <2>4, ZenonT(30) DEF Load, WatcherStates
  <2>5. CASE ReloadTick
    BY <2>1, <2>5, ReloadConfig, SMTT(60) DEF ReloadTick
  <2> QED BY <2>2, <2>3, <2>4, <2>5
<1>5. bus' \in Seq(Valid) /\ Len(bus') <= Capacity /\ lagged' \in BOOLEAN
  <2>1. CASE UNCHANGED busVars
    BY <2>1, ZenonT(30) DEF ReloadInv, ReloadTypeOK, busVars
  <2>2. CASE Send(disk) /\ disk \in Valid
    <3>1. bus \in Seq(Valid) /\ Len(bus) \in Nat /\ Len(bus) <= Capacity
      BY LenProperties, ZenonT(30) DEF ReloadInv, ReloadTypeOK
    <3>2. CASE Len(bus) < Capacity
      <4>1. bus' = Append(bus, disk) /\ lagged' = lagged
        BY <2>2, <3>2, ZenonT(30) DEF Send
      <4>2. Append(bus, disk) \in Seq(Valid) /\ Len(Append(bus, disk)) = Len(bus) + 1
        BY <2>2, <3>1, AppendProperties, ZenonT(30)
      <4> QED BY <3>1, <3>2, <4>1, <4>2, ReloadConfig, SMTT(60) DEF ReloadInv, ReloadTypeOK
    <3>3. CASE ~(Len(bus) < Capacity)
      <4>1. bus # <<>>
        BY <3>1, <3>3, ReloadConfig, SMTT(60)
      <4>2. Tail(bus) \in Seq(Valid) /\ Len(Tail(bus)) = Len(bus) - 1
        BY <3>1, <4>1, HeadTailProperties, ZenonT(30)
      <4>3. bus' = Append(Tail(bus), disk) /\ lagged' = TRUE
        BY <2>2, <3>3, ZenonT(30) DEF Send
      <4> QED BY <2>2, <3>1, <4>2, <4>3, AppendProperties, SMTT(60)
    <3> QED BY <3>2, <3>3, ZenonT(30)
  <2> QED BY <2>1, <2>2, ZenonT(30) DEF Write, SkipEvent, TakeEvent, Load, ReloadTick
<1>6. ReloadTypeOK'
  BY <1>1, <1>3, <1>4, <1>5, ZenonT(30) DEF ReloadInv, ReloadTypeOK
<1> QED BY <1>2, <1>6, ZenonT(30) DEF ReloadInv

(* The next configuration is taken from the channel, or the loop ends. *)
LEMMA ReceiveInv ==
    ASSUME ReloadInv, Receive
    PROVE  ReloadInv'
<1>1. UNCHANGED <<disk, events, watcher, age, slept, lagged, router, services,
                  middlewares, checked, view>>
  BY DEF Receive, fileVars, watcherVars, cellVars
<1>2. ViewOK' /\ TearBounded'
  BY <1>1 DEF ReloadInv, ViewOK, TearBounded, Cell
<1>3. CASE lagged
  <2>1. UNCHANGED <<bus, log>> /\ server = "recv" /\ server' = "dead"
    BY <1>3, ZenonT(30) DEF Receive
  <2>2. ReloadTypeOK'
    BY <1>1, <2>1, ZenonT(30) DEF ReloadInv, ReloadTypeOK, ServerStates
  <2>3. CellsOK'
    BY <1>1, <2>1, ZenonT(60) DEF ReloadInv, CellsOK, Stored
  <2> QED BY <1>2, <2>2, <2>3, ZenonT(30) DEF ReloadInv
<1>4. CASE ~lagged
  <2>1. /\ server = "recv" /\ server' = "router" /\ bus # <<>>
        /\ log' = Append(log, Head(bus)) /\ bus' = Tail(bus)
    BY <1>4, ZenonT(30) DEF Receive
  <2>2. /\ bus' \in Seq(Valid) /\ Len(bus') <= Capacity
        /\ log' \in Seq(Valid) /\ Len(log') = Len(log) + 1 /\ Len(log) \in Nat
    BY <2>1, HeadTailProperties, AppendProperties, LenProperties, ReloadConfig, SMTT(60)
       DEF ReloadInv, ReloadTypeOK
  <2>3. 0 .. Len(log) \subseteq 0 .. Len(log')
    BY <2>2, SMTT(60)
  <2>4. \A q \in Seq(0 .. Len(log)) : q \in Seq(0 .. Len(log'))
    BY <2>3, SeqMonotonic, ZenonT(30)
  <2>5. view' \in [Requests -> Seq(0 .. Len(log'))]
    BY <1>1, <2>4 DEF ReloadInv, ReloadTypeOK
  <2>6. ReloadTypeOK'
    BY <1>1, <2>1, <2>2, <2>3, <2>5, ZenonT(30) DEF ReloadInv, ReloadTypeOK, ServerStates
  <2>7. CellsOK'
    BY <1>1, <2>1, <2>2, SMTT(60) DEF ReloadInv, ReloadTypeOK, CellsOK, Stored
  <2> QED BY <1>2, <2>6, <2>7 DEF ReloadInv
<1> QED BY <1>3, <1>4, ZenonT(30)

(* One store of SharedState::reload, the health checks, or the abort. *)
LEMMA StoreInv ==
    ASSUME ReloadInv,
           StoreRouter \/ StoreServices \/ StoreMiddlewares \/ StartHealthChecks \/ Abort
    PROVE  ReloadInv'
<1>1. UNCHANGED <<disk, events, watcher, age, slept, bus, lagged, log, view>>
  BY ZenonT(30) DEF StoreRouter, StoreServices, StoreMiddlewares, StartHealthChecks, Abort,
     fileVars, watcherVars, busVars
<1>2. Len(log) \in Nat
  BY SMTT(60) DEF ReloadInv, ReloadTypeOK
<1>3. CellsOK'
  BY <1>1, <1>2, ZenonT(30) DEF ReloadInv, CellsOK, Stored, StoreRouter, StoreServices,
     StoreMiddlewares, StartHealthChecks, Abort, cellVars
<1>4. /\ router' \in Nat /\ services' \in Nat /\ middlewares' \in Nat
      /\ router <= router' /\ services <= services' /\ middlewares <= middlewares'
      /\ router' <= Len(log) /\ services' <= Len(log) /\ middlewares' <= Len(log)
  <2>1. /\ router \in Nat /\ services \in Nat /\ middlewares \in Nat
        /\ router <= Len(log) /\ services <= Len(log) /\ middlewares <= Len(log)
    BY <1>2 DEF ReloadInv, ReloadTypeOK
  <2>2. \A x \in Nat : x <= x
    OBVIOUS
  <2>3. router' \in {router, Len(log)} /\ services' \in {services, Len(log)}
        /\ middlewares' \in {middlewares, Len(log)}
    BY ZenonT(30) DEF StoreRouter, StoreServices, StoreMiddlewares, StartHealthChecks, Abort,
       cellVars
  <2> QED BY <1>2, <2>1, <2>2, <2>3, ZenonT(60)
<1>5. ReloadTypeOK'
  <2>1. server' \in ServerStates
    BY ZenonT(30) DEF ServerStates, StoreRouter, StoreServices, StoreMiddlewares,
       StartHealthChecks, Abort
  <2>2. checked' \subseteq 0 .. Len(log)
    BY ZenonT(30) DEF ReloadInv, ReloadTypeOK, StoreRouter, StoreServices, StoreMiddlewares,
       StartHealthChecks, Abort
  <2> QED BY <1>1, <1>2, <1>4, <2>1, <2>2, SMTT(60) DEF ReloadInv, ReloadTypeOK
<1>6. ViewOK'
  <2> SUFFICES ASSUME NEW r \in Requests, NEW i \in DOMAIN view[r]
               PROVE  view[r][i] <= Cell(i)'
    BY <1>1, ZenonT(30) DEF ViewOK
  <2>1. i \in 1 .. 3 /\ view[r][i] \in Nat /\ view[r][i] <= Cell(i)
    BY ViewFacts, ZenonT(30) DEF ReloadInv, ViewOK
  <2>2. \A k \in 1 .. 3 : Cell(k) \in Nat /\ Cell(k)' \in Nat /\ Cell(k) <= Cell(k)'
    BY <1>4, SMTT(60) DEF ReloadInv, ReloadTypeOK, Cell
  <2> QED BY <2>1, <2>2
<1>7. TearBounded'
  BY <1>1, ZenonT(30) DEF ReloadInv, TearBounded
<1> QED BY <1>3, <1>5, <1>6, <1>7, ZenonT(30) DEF ReloadInv

(* A request loads its next cell, which is close to all it has loaded. *)
LEMMA LoadCellInv ==
    ASSUME ReloadInv, NEW r \in Requests, LoadCell(r)
    PROVE  ReloadInv'
<1> DEFINE n == Len(view[r]) + 1
<1>1. /\ n \in 1 .. 3 /\ view[r] \in Seq(0 .. Len(log))
      /\ Cell(n) \in 0 .. Len(log)
      /\ view' = [view EXCEPT ![r] = Append(view[r], Cell(n))]
      /\ UNCHANGED <<disk, events, watcher, age, slept, bus, lagged, server, log,
                     router, services, middlewares, checked>>
  <2>1. view[r] \in Seq(0 .. Len(log)) /\ Len(view[r]) \in Nat
    BY LenProperties, ZenonT(30) DEF ReloadInv, ReloadTypeOK
  <2>2. n \in 1 .. 3
    BY <2>1, SMTT(60) DEF LoadCell
  <2>3. Cell(n) \in 0 .. Len(log)
    BY DEF ReloadInv, ReloadTypeOK, Cell
  <2>4. view' = [view EXCEPT ![r] = Append(view[r], Cell(n))]
    BY DEF ReloadInv, ReloadTypeOK, LoadCell
  <2>5. UNCHANGED <<disk, events, watcher, age, slept, bus, lagged, server, log,
                    router, services, middlewares, checked>>
    BY DEF LoadCell, fileVars, watcherVars, busVars, serverVars, cellVars
  <2> QED BY <2>1, <2>2, <2>3, <2>4, <2>5, ZenonT(60)
<1> HIDE DEF n
<1>2. /\ view'[r] = Append(view[r], Cell(n))
      /\ \A o \in Requests \ {r} : view'[o] = view[o]
  BY <1>1, ZenonT(30) DEF ReloadInv, ReloadTypeOK
<1>3. /\ view'[r] \in Seq(0 .. Len(log)) /\ DOMAIN view'[r] = 1 .. n
      /\ view'[r][n] = Cell(n) /\ DOMAIN view[r] = 1 .. n - 1
      /\ \A i \in 1 .. n - 1 : view'[r][i] = view[r][i]
  <2>1. /\ Len(view[r]) \in Nat /\ n = Len(view[r]) + 1
        /\ DOMAIN view[r] = 1 .. Len(view[r])
    BY <1>1, LenProperties, ZenonT(30) DEF n
  <2> DEFINE D == 0 .. Len(log)
             v == view[r]
             x == Cell(n)
  <2>2. v \in Seq(D) /\ x \in D
    BY <1>1, ZenonT(30)
  <2> HIDE DEF D, v, x
  <2>3. /\ Append(v, x) \in Seq(D) /\ Len(Append(v, x)) = Len(v) + 1
        /\ \A i \in 1 .. Len(v) : Append(v, x)[i] = v[i]
        /\ Append(v, x)[Len(v) + 1] = x
    BY <2>2, AppendProperties, SMTT(60)
  <2>4. DOMAIN Append(v, x) = 1 .. Len(v) + 1
    BY <2>3, LenProperties, ZenonT(30)
  <2>5. Len(v) = n - 1 /\ Len(v) + 1 = n
    BY <1>1, <2>1, SMTT(60) DEF v
  <2>6. view'[r] = Append(v, x)
    BY <1>2, ZenonT(30) DEF v, x
  <2> QED BY <2>1, <2>3, <2>4, <2>5, <2>6, ZenonT(60) DEF D, v, x
<1>4. ReloadTypeOK'
  <2>1. view' \in [Requests -> Seq(0 .. Len(log))]
    BY <1>1, <1>3, ZenonT(30) DEF ReloadInv, ReloadTypeOK
  <2>2. \A o \in Requests : Len(view'[o]) <= 3
    BY <1>1, <1>2, <1>3, SMTT(60) DEF ReloadInv, ReloadTypeOK
  <2> QED BY <1>1, <2>1, <2>2, ZenonT(30) DEF ReloadInv, ReloadTypeOK
<1>5. CellsOK' /\ \A i : Cell(i)' = Cell(i)
  BY <1>1, ZenonT(30) DEF ReloadInv, CellsOK, Stored, Cell
<1>6. ViewOK'
  <2>1. \A i \in 1 .. n : view'[r][i] <= Cell(i)
    <3>1. \A i \in 1 .. n - 1 : view'[r][i] <= Cell(i)
      BY <1>3, ZenonT(30) DEF ReloadInv, ViewOK
    <3>2. view'[r][n] <= Cell(n)
      BY <1>3, CellType, ZenonT(30) DEF ReloadInv
    <3> QED BY <1>1, <3>1, <3>2, Positions, ZenonT(30)
  <2> QED BY <1>2, <1>3, <1>5, <2>1, ZenonT(30) DEF ReloadInv, ViewOK
<1>7. TearBounded'
  <2>1. \A i \in 1 .. n - 1 : view[r][i] <= Cell(n) + 1
    <3> SUFFICES ASSUME NEW i \in 1 .. n - 1 PROVE view[r][i] <= Cell(n) + 1
      BY ZenonT(30)
    <3>3. Cell(i) \in Nat /\ Cell(n) \in Nat
      BY CellType, ZenonT(30) DEF ReloadInv
    <3>4. i \in 1 .. 3 /\ i < n
      BY <1>1, Positions, ZenonT(30)
    <3>1. Cell(i) <= Cell(n) + 1
      BY <1>1, <3>4, CellsClose, ZenonT(60) DEF ReloadInv
    <3>2. view[r][i] \in Nat /\ view[r][i] <= Cell(i)
      BY <1>3, ViewFacts, ZenonT(30) DEF ReloadInv, ViewOK
    <3> QED BY <3>1, <3>2, <3>3, SMTT(60)
  <2>2. \A i, j \in 1 .. n : i < j => view'[r][i] <= view'[r][j] + 1
    <3> SUFFICES ASSUME NEW i \in 1 .. n, NEW j \in 1 .. n, i < j
                 PROVE  view'[r][i] <= view'[r][j] + 1
      BY ZenonT(30)
    <3>1. i \in 1 .. n - 1 /\ view'[r][i] = view[r][i]
      BY <1>1, <1>3, Positions, ZenonT(30)
    <3>2. CASE j = n
      BY <1>3, <2>1, <3>1, <3>2, ZenonT(30)
    <3>3. CASE j # n
      <4>1. j \in 1 .. n - 1 /\ view'[r][j] = view[r][j]
        BY <1>1, <1>3, <3>3, Positions, ZenonT(30)
      <4>2. view[r][i] <= view[r][j] + 1
        BY <1>3, <3>1, <4>1, ZenonT(30) DEF ReloadInv, TearBounded
      <4> QED BY <3>1, <4>1, <4>2, ZenonT(30)
    <3> QED BY <3>2, <3>3
  <2> QED BY <1>2, <1>3, <2>2, ZenonT(30) DEF ReloadInv, TearBounded
<1> QED BY <1>4, <1>5, <1>6, <1>7, ZenonT(60) DEF ReloadInv

LEMMA FinishInv ==
    ASSUME ReloadInv, NEW r \in Requests, Finish(r)
    PROVE  ReloadInv'
<1>1. /\ view'[r] = <<>> /\ \A o \in Requests \ {r} : view'[o] = view[o]
      /\ UNCHANGED <<disk, events, watcher, age, slept, bus, lagged, server, log,
                     router, services, middlewares, checked>>
  BY DEF ReloadInv, ReloadTypeOK, Finish, fileVars, watcherVars, busVars, serverVars, cellVars
<1>2. view' \in [Requests -> Seq(0 .. Len(log))]
  BY SMTT(60) DEF ReloadInv, ReloadTypeOK, Finish
<1>3. \A o \in Requests : Len(view'[o]) <= 3
  <2>1. Len(view'[r]) <= 3
    BY <1>1, EmptyView, ZenonT(30)
  <2>2. \A o \in Requests \ {r} : Len(view'[o]) <= 3
    BY <1>1, ZenonT(30) DEF ReloadInv, ReloadTypeOK
  <2> QED BY <2>1, <2>2, ZenonT(30)
<1>4. ReloadTypeOK'
  BY <1>1, <1>2, <1>3, ZenonT(30) DEF ReloadInv, ReloadTypeOK
<1>5. CellsOK' /\ \A i : Cell(i)' = Cell(i)
  BY <1>1, ZenonT(30) DEF ReloadInv, CellsOK, Stored, Cell
<1>6. DOMAIN view'[r] = {}
  BY <1>1, EmptyView, ZenonT(30)
<1>7. ViewOK' /\ TearBounded'
  BY <1>1, <1>5, <1>6, ZenonT(30) DEF ReloadInv, ViewOK, TearBounded
<1> QED BY <1>4, <1>5, <1>7, ZenonT(30) DEF ReloadInv

LEMMA ReloadStutterInv == ReloadInv /\ UNCHANGED reloadVars => ReloadInv'
BY DEF ReloadInv, ReloadTypeOK, CellsOK, Stored, ViewOK, TearBounded, Cell, reloadVars, fileVars,
   watcherVars, busVars, serverVars, cellVars

LEMMA ReloadNextInv == ReloadInv /\ [ReloadNext]_reloadVars => ReloadInv'
BY WatcherInv, ReceiveInv, StoreInv, LoadCellInv, FinishInv, ReloadStutterInv, ZenonT(60)
   DEF ReloadNext, WatcherStep, ServerStep

-----------------------------------------------------------------------------
(***************************************************************************)
(* Whatever reloads run while it loads router, services and middlewares, a *)
(* request never gets one more than one reload older than another it       *)
(* loaded before it.                                                       *)
(***************************************************************************)
THEOREM ViewsNearlyConsistent == ReloadSpec => [](ReloadTypeOK /\ TearBounded)
<1>1. ReloadInv => ReloadTypeOK /\ TearBounded
  BY DEF ReloadInv
<1> QED BY <1>1, ReloadInitInv, ReloadNextInv, PTL DEF ReloadSpec

(***************************************************************************)
(* Between reloads, and after the shutdown, router, services and           *)
(* middlewares come from one configuration.                                *)
(***************************************************************************)
THEOREM ReloadsComplete == ReloadSpec => []RestsConsistent
<1>1. ReloadInv => RestsConsistent
  BY DEF ReloadInv, CellsOK, Stored, RestsConsistent
<1> QED BY <1>1, ReloadInitInv, ReloadNextInv, PTL DEF ReloadSpec
-----------------------------------------------------------------------------
(***************************************************************************)
(* The order of configurations: what was applied is not newer than what is *)
(* in the channel, and neither is newer than the file.                     *)
(***************************************************************************)
AtMost(s, d) == \A i \in DOMAIN s : s[i] <= d
Rising(s) == \A i, j \in DOMAIN s : i < j => s[i] <= s[j]
Before(s, t) == \A i \in DOMAIN s, j \in DOMAIN t : s[i] <= t[j]

OrderInv ==
    /\ AtMost(log, disk) /\ AtMost(bus, disk)
    /\ Rising(log) /\ Rising(bus) /\ Before(log, bus)

\* Contents are numbers, whatever sequence they are in.
LEMMA Contents ==
    ASSUME ReloadTypeOK
    PROVE  log \in Seq(Nat) /\ bus \in Seq(Nat) /\ disk \in Nat
<1>1. \A v \in Valid : v \in Nat
  BY ReloadConfig
<1>2. log \in Seq(Valid) /\ bus \in Seq(Valid) /\ disk \in 0 .. MaxWrites
  BY DEF ReloadTypeOK
<1>3. ASSUME NEW s \in Seq(Valid) PROVE s \in Seq(Nat)
  BY <1>1, <1>3
<1> QED BY <1>2, <1>3, ReloadConfig

\* Where the values of Append and Tail come from.
LEMMA AppendAt ==
    ASSUME NEW s \in Seq(Nat), NEW d \in Nat
    PROVE  \A i \in DOMAIN Append(s, d) :
              \/ i \in DOMAIN s /\ Append(s, d)[i] = s[i] /\ s[i] \in Nat
              \/ i = Len(s) + 1 /\ Append(s, d)[i] = d
OBVIOUS

LEMMA TailAt ==
    ASSUME NEW s \in Seq(Nat), s # <<>>
    PROVE  /\ Tail(s) \in Seq(Nat) /\ Head(s) \in Nat /\ 1 \in DOMAIN s /\ Head(s) = s[1]
           /\ \A i \in DOMAIN Tail(s) : i \in Nat /\ i + 1 \in DOMAIN s /\ 1 < i + 1
                                        /\ Tail(s)[i] = s[i + 1]
OBVIOUS

LEMMA Places == ASSUME NEW s \in Seq(Nat) PROVE \A i \in DOMAIN s : i \in Nat /\ i < Len(s) + 1
OBVIOUS

LEMMA AppendRises ==
    ASSUME NEW s \in Seq(Nat), NEW d \in Nat, AtMost(s, d), Rising(s)
    PROVE  AtMost(Append(s, d), d) /\ Rising(Append(s, d))
<1>1. d <= d
  OBVIOUS
<1>2. AtMost(Append(s, d), d)
  BY <1>1, AppendAt, ZenonT(30) DEF AtMost
<1>3. ASSUME NEW i \in DOMAIN Append(s, d), NEW j \in DOMAIN Append(s, d), i < j
      PROVE  Append(s, d)[i] <= Append(s, d)[j]
  <2>1. CASE j = Len(s) + 1 /\ Append(s, d)[j] = d
    BY <1>2, <2>1 DEF AtMost
  <2>2. CASE j \in DOMAIN s /\ Append(s, d)[j] = s[j]
    <3>1. j \in Nat /\ j < Len(s) + 1 /\ Len(s) \in Nat
      BY <2>2, Places
    <3>2. i # Len(s) + 1
      BY <1>3, <3>1
    <3>3. i \in DOMAIN s /\ Append(s, d)[i] = s[i]
      BY <3>2, AppendAt, ZenonT(30)
    <3> QED BY <1>3, <2>2, <3>3, ZenonT(30) DEF Rising
  <2> QED BY <2>1, <2>2, AppendAt, ZenonT(30)
<1> QED BY <1>2, <1>3, ZenonT(30) DEF Rising

LEMMA TailRises ==
    ASSUME NEW s \in Seq(Nat), s # <<>>, NEW d, AtMost(s, d), Rising(s)
    PROVE  /\ Tail(s) \in Seq(Nat) /\ AtMost(Tail(s), d) /\ Rising(Tail(s))
           /\ \A j \in DOMAIN Tail(s) : Head(s) <= Tail(s)[j]
           /\ Head(s) \in Nat /\ Head(s) <= d
<1>1. AtMost(Tail(s), d) /\ Head(s) <= d
  BY TailAt, ZenonT(30) DEF AtMost
<1>2. \A j \in DOMAIN Tail(s) : Head(s) <= Tail(s)[j]
  BY TailAt, ZenonT(30) DEF Rising
<1>3. ASSUME NEW i \in DOMAIN Tail(s), NEW j \in DOMAIN Tail(s), i < j
      PROVE  Tail(s)[i] <= Tail(s)[j]
  <2>1. i \in Nat /\ j \in Nat
    BY TailAt, ZenonT(30)
  <2>2. i + 1 < j + 1
    BY <1>3, <2>1
  <2> QED BY <2>2, TailAt, ZenonT(30) DEF Rising
<1> QED BY <1>1, <1>2, <1>3, TailAt, ZenonT(30) DEF Rising

LEMMA BeforeTail ==
    ASSUME NEW s, NEW t \in Seq(Nat), t # <<>>, Before(s, t)
    PROVE  Before(s, Tail(t)) /\ AtMost(s, Head(t))
BY TailAt, ZenonT(30) DEF AtMost, Before

LEMMA BeforeAppend ==
    ASSUME NEW s, NEW t \in Seq(Nat), NEW d \in Nat, Before(s, t), AtMost(s, d)
    PROVE  Before(s, Append(t, d))
BY AppendAt, ZenonT(30) DEF AtMost, Before

LEMMA AppendBefore ==
    ASSUME NEW s \in Seq(Nat), NEW t, NEW d \in Nat, Before(s, t),
           \A j \in DOMAIN t : d <= t[j]
    PROVE  Before(Append(s, d), t)
BY AppendAt, ZenonT(30) DEF Before

\* A bound on a sequence stays one when it is raised.
LEMMA RaisedBound ==
    ASSUME NEW s \in Seq(Nat), NEW d \in Nat, NEW e \in Nat, AtMost(s, d), d <= e
    PROVE  AtMost(s, e)
<1>1. \A i \in DOMAIN s : s[i] \in Nat
  OBVIOUS
<1>2. \A n \in Nat : n <= d => n <= e
  OBVIOUS
<1> QED BY <1>1, <1>2, ZenonT(30) DEF AtMost

LEMMA OrderInitInv == ReloadInit => OrderInv
BY DEF ReloadInit, OrderInv, AtMost, Rising, Before

LEMMA SendOrder ==
    ASSUME ReloadTypeOK, OrderInv, Send(disk), UNCHANGED <<disk, log>>
    PROVE  OrderInv'
<1>1. log \in Seq(Nat) /\ bus \in Seq(Nat) /\ disk \in Nat
  BY Contents
<1>2. CASE Len(bus) < Capacity
  <2>1. bus' = Append(bus, disk)
    BY <1>2 DEF Send
  <2> QED BY <1>1, <2>1, AppendRises, BeforeAppend, ZenonT(30) DEF OrderInv
<1>3. CASE ~(Len(bus) < Capacity)
  <2>1. bus' = Append(Tail(bus), disk)
    BY <1>3 DEF Send
  <2>2. bus # <<>>
    BY <1>3, ReloadConfig
  <2>3. Tail(bus) \in Seq(Nat) /\ AtMost(Tail(bus), disk) /\ Rising(Tail(bus))
    BY <1>1, <2>2, TailRises DEF OrderInv
  <2>4. Before(log, Tail(bus))
    BY <1>1, <2>2, BeforeTail DEF OrderInv
  <2> QED BY <1>1, <2>1, <2>3, <2>4, AppendRises, BeforeAppend, ZenonT(30) DEF OrderInv
<1> QED BY <1>2, <1>3

LEMMA ReceiveOrder ==
    ASSUME ReloadTypeOK, OrderInv, Receive
    PROVE  OrderInv'
<1>1. log \in Seq(Nat) /\ bus \in Seq(Nat) /\ disk \in Nat /\ bus # <<>> /\ disk' = disk
  BY Contents DEF Receive, fileVars
<1>2. CASE lagged
  BY <1>2 DEF Receive, OrderInv, fileVars
<1>3. CASE ~lagged
  <2>1. log' = Append(log, Head(bus)) /\ bus' = Tail(bus)
    BY <1>3 DEF Receive
  <2>2. /\ AtMost(Tail(bus), disk) /\ Rising(Tail(bus))
        /\ \A j \in DOMAIN Tail(bus) : Head(bus) <= Tail(bus)[j]
        /\ Head(bus) \in Nat /\ Head(bus) <= disk
    BY <1>1, TailRises DEF OrderInv
  <2>3. Before(log, Tail(bus)) /\ AtMost(log, Head(bus))
    BY <1>1, BeforeTail, ZenonT(30) DEF OrderInv
  <2>4. AtMost(Append(log, Head(bus)), Head(bus)) /\ Rising(Append(log, Head(bus)))
    BY <1>1, <2>2, <2>3, AppendRises, ZenonT(30) DEF OrderInv
  <2>5. Append(log, Head(bus)) \in Seq(Nat)
    BY <1>1, <2>2
  <2>6. AtMost(Append(log, Head(bus)), disk)
    BY <1>1, <2>2, <2>4, <2>5, RaisedBound, ZenonT(30)
  <2>7. Before(Append(log, Head(bus)), Tail(bus))
    BY <1>1, <2>2, <2>3, AppendBefore, ZenonT(30)
  <2> QED BY <1>1, <2>1, <2>2, <2>4, <2>6, <2>7, ZenonT(30) DEF OrderInv
<1> QED BY <1>2, <1>3

LEMMA OrderNextInv == ReloadTypeOK /\ OrderInv /\ [ReloadNext]_reloadVars => OrderInv'
<1> SUFFICES ASSUME ReloadTypeOK, OrderInv, [ReloadNext]_reloadVars PROVE OrderInv'
  OBVIOUS
<1>1. CASE Write
  <2>1. /\ disk' = disk + 1 /\ log' = log /\ bus' = bus
        /\ log \in Seq(Nat) /\ bus \in Seq(Nat) /\ disk \in Nat
    BY <1>1, Contents DEF Write, serverVars, busVars
  <2>2. disk + 1 \in Nat /\ disk <= disk + 1
    BY <2>1
  <2> QED BY <2>1, <2>2, RaisedBound, ZenonT(30) DEF OrderInv
<1>2. CASE Load
  BY <1>2, SendOrder DEF Load, OrderInv, fileVars, busVars, serverVars
<1>3. CASE Receive
  BY <1>3, ReceiveOrder
<1>4. CASE SkipEvent \/ TakeEvent \/ StoreRouter \/ StoreServices \/ StoreMiddlewares
             \/ StartHealthChecks \/ Abort \/ ReloadTick \/ UNCHANGED reloadVars
             \/ \E r \in Requests : LoadCell(r) \/ Finish(r)
  <2>1. disk' = disk /\ log' = log /\ bus' = bus
    BY <1>4 DEF SkipEvent, TakeEvent, StoreRouter, StoreServices, StoreMiddlewares,
       StartHealthChecks, Abort, ReloadTick, LoadCell, Finish, reloadVars, fileVars,
       busVars, serverVars
  <2> QED BY <2>1 DEF OrderInv
<1> QED BY <1>1, <1>2, <1>3, <1>4 DEF ReloadNext, WatcherStep, ServerStep

(***************************************************************************)
(* However writes, loads and reloads interleave, and whatever the channel  *)
(* drops, the reload task applies contents in the order the file had them. *)
(***************************************************************************)
THEOREM AppliedInOrder == ReloadSpec => []NeverRollsBack
<1>1. ReloadTypeOK /\ OrderInv => NeverRollsBack
  <2> SUFFICES ASSUME ReloadTypeOK, OrderInv,
                      NEW i \in DOMAIN (log \o bus), NEW j \in DOMAIN (log \o bus), i < j
               PROVE  (log \o bus)[i] <= (log \o bus)[j]
    BY DEF NeverRollsBack
  <2>1. log \in Seq(Nat) /\ bus \in Seq(Nat)
    BY Contents
  <2>2. \A k \in DOMAIN (log \o bus) :
           \/ k \in DOMAIN log /\ (log \o bus)[k] = log[k]
           \/ k > Len(log) /\ k - Len(log) \in DOMAIN bus /\ (log \o bus)[k] = bus[k - Len(log)]
    BY <2>1
  <2>3. Len(log) \in Nat /\ DOMAIN log = 1 .. Len(log) /\ i \in Nat /\ j \in Nat
    BY <2>1
  <2> QED BY <2>2, <2>3 DEF OrderInv, Rising, Before
<1>2. ReloadInv => ReloadTypeOK
  BY DEF ReloadInv
<1> QED
  BY <1>1, <1>2, ReloadInitInv, ReloadNextInv, OrderInitInv, OrderNextInv, PTL DEF ReloadSpec

\* A drain waits for what is in flight, refuses what comes late and counts both
\* right (run_server's drain and ConnectionTracker, for every set of
\* connections and every timeout).
THEOREM DrainSafety == Spec => []DrainIsSafe
  BY TrackerExact, DrainServesInflight, DrainRefusesLate, PTL DEF DrainIsSafe

\* A request sees at most one reload under way, every reload ends with all
\* parts replaced, and no content is overtaken by an older one (HotReloader and
\* the reload task, for every file history).
THEOREM ReloadSafety == ReloadSpec => []ReloadIsSafe
  BY ViewsNearlyConsistent, ReloadsComplete, AppliedInOrder, PTL DEF ReloadIsSafe

=============================================================================
