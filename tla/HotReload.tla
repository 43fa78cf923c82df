------------------------------ MODULE HotReload ------------------------------
(***************************************************************************)
(* Hot reload of the configuration: the file watcher thread with its       *)
(* debounce (src/config/watcher.rs), the broadcast channel it feeds, the   *)
(* task of Server::run that applies what it receives (src/server/mod.rs),  *)
(* and the requests that load router, services and middlewares one after   *)
(* the other (src/server/listener.rs).                                     *)
(*                                                                         *)
(* A content of the file is the number of the write that produced it; 0 is *)
(* what main loaded.  A save may be several writes, and what a partial     *)
(* write leaves need not be valid.  The three cells of SharedState hold    *)
(* the number of the reload that stored them.                              *)
(***************************************************************************)
EXTENDS Naturals, Sequences

CONSTANTS
    Requests,        \* request slots
    MaxWrites,       \* bound on the writes to the file
    MaxEvents,       \* how many notifications one write may cause
    Valid,           \* the contents that Config::load and validate accept
    Debounce,        \* debounce_duration, in ticks (200 ms)
    Settle,          \* the delay before the file is read, in ticks (100 ms)
    Capacity         \* of the broadcast channel (16)

ASSUME ReloadConfig ==
    /\ MaxWrites \in Nat
    /\ MaxEvents \in Nat \ {0}
    /\ Valid \subseteq 1 .. MaxWrites
    /\ Debounce \in Nat /\ Settle \in Nat
    /\ Capacity \in Nat \ {0}

VARIABLES
    disk,         \* the content of the file
    events,       \* notifications queued in sync_rx
    watcher,      \* where the watcher thread is
    age,          \* ticks since last_event, up to Debounce
    slept,        \* ticks since the thread began to sleep, up to Settle
    bus,          \* configurations sent and not yet received
    lagged,       \* the receiver has missed one
    server,       \* where the reload task of Server::run is
    log,          \* log[k]: the content the k-th reload applies
    router, services, middlewares,   \* the cells of SharedState
    checked,      \* reloads whose health check tasks are running
    view          \* view[r]: what request r has loaded so far

fileVars == <<disk, events>>
watcherVars == <<watcher, age, slept>>
busVars == <<bus, lagged>>
cellVars == <<router, services, middlewares>>
serverVars == <<server, log, cellVars, checked>>
reloadVars == <<fileVars, watcherVars, busVars, serverVars, view>>

WatcherStates == {"recv", "sleep", "stopped"}
ServerStates == {"recv", "router", "services", "middlewares", "checks", "dead"}

(* The cells in the order in which a request loads them. *)
Cell(i) == IF i = 1 THEN router ELSE IF i = 2 THEN services ELSE middlewares

Applied == IF log = <<>> THEN 0 ELSE log[Len(log)]

ReloadInit ==
    /\ disk = 0 /\ events = 0
    /\ watcher = "recv" /\ age = 0 /\ slept = 0
    /\ bus = <<>> /\ lagged = FALSE
    /\ server = "recv" /\ log = <<>>
    /\ router = 0 /\ services = 0 /\ middlewares = 0
    /\ checked = {0}
    /\ view = [r \in Requests |-> <<>>]

-----------------------------------------------------------------------------
(* The operator writes the file; notify queues modify and create events. *)
Write ==
    /\ disk < MaxWrites
    /\ disk' = disk + 1
    /\ \E k \in 1 .. MaxEvents : events' = events + k
    /\ UNCHANGED <<watcherVars, busVars, serverVars, view>>

(* An event within the debounce interval of the last one taken is skipped. *)
SkipEvent ==
    /\ watcher = "recv" /\ events > 0
    /\ age < Debounce
    /\ events' = events - 1
    /\ UNCHANGED <<disk, watcherVars, busVars, serverVars, view>>

TakeEvent ==
    /\ watcher = "recv" /\ events > 0
    /\ age >= Debounce
    /\ events' = events - 1
    /\ age' = 0
    /\ watcher' = "sleep" /\ slept' = 0
    /\ UNCHANGED <<disk, busVars, serverVars, view>>

(* Mutant: the newest configuration overtakes those not yet received. *)
SendFirst(v) ==
    IF Len(bus) < Capacity
    THEN bus' = <<v>> \o bus /\ UNCHANGED lagged
    ELSE bus' = <<v>> \o Tail(bus) /\ lagged' = TRUE

(* Mutant: a configuration is dropped while another waits to be received. *)
SendIfIdle(v) ==
    IF bus = <<>> THEN bus' = <<v>> /\ UNCHANGED lagged ELSE UNCHANGED busVars

(* broadcast::Sender::send: a full channel drops its oldest value. *)
Send(v) ==
    IF Len(bus) < Capacity
    THEN bus' = Append(bus, v) /\ UNCHANGED lagged
    ELSE bus' = Append(Tail(bus), v) /\ lagged' = TRUE

(***************************************************************************)
(* After its delay the thread reads the file.  A content that does not     *)
(* load or validate is logged and forgotten; send fails, and the thread    *)
(* ends, when the receiver is gone.                                        *)
(***************************************************************************)
Load ==
    /\ watcher = "sleep" /\ slept >= Settle
    /\ IF disk \notin Valid
       THEN watcher' = "recv" /\ UNCHANGED busVars
       ELSE IF server # "dead"
       THEN watcher' = "recv" /\ Send(disk)
       ELSE watcher' = "stopped" /\ UNCHANGED busVars
    /\ UNCHANGED <<fileVars, age, slept, serverVars, view>>

-----------------------------------------------------------------------------
(***************************************************************************)
(* `while let Ok(new_config) = rx.recv().await`: a receiver that missed a  *)
(* value gets Err(Lagged), which ends the loop and drops the receiver.     *)
(***************************************************************************)
Receive ==
    /\ server = "recv"
    /\ bus # <<>>
    /\ IF lagged
       THEN server' = "dead" /\ UNCHANGED <<bus, log>>
       ELSE /\ server' = "router"
            /\ log' = Append(log, Head(bus))
            /\ bus' = Tail(bus)
    /\ UNCHANGED <<fileVars, watcherVars, lagged, cellVars, checked, view>>

StoreRouter ==
    /\ server = "router"
    /\ router' = Len(log)
    /\ server' = "services"
    /\ UNCHANGED <<fileVars, watcherVars, busVars, log, services, middlewares, checked, view>>

StoreServices ==
    /\ server = "services"
    /\ services' = Len(log)
    /\ server' = "middlewares"
    /\ UNCHANGED <<fileVars, watcherVars, busVars, log, router, middlewares, checked, view>>

StoreMiddlewares ==
    /\ server = "middlewares"
    /\ middlewares' = Len(log)
    /\ server' = "checks"
    /\ UNCHANGED <<fileVars, watcherVars, busVars, log, router, services, checked, view>>

(* start_health_checks spawns tasks that loop for ever. *)
StartHealthChecks ==
    /\ server = "checks"
    /\ checked' = checked \cup {services}
    /\ server' = "recv"
    /\ UNCHANGED <<fileVars, watcherVars, busVars, log, cellVars, view>>

(* Shutdown aborts the task, which takes effect at its next await. *)
Abort ==
    /\ server = "recv"
    /\ server' = "dead"
    /\ UNCHANGED <<fileVars, watcherVars, busVars, log, cellVars, checked, view>>

-----------------------------------------------------------------------------
(* A request loads the three cells in order, one load at a time. *)
LoadCell(r) ==
    /\ Len(view[r]) < 3
    /\ view' = [view EXCEPT ![r] = Append(@, Cell(Len(@) + 1))]
    /\ UNCHANGED <<fileVars, watcherVars, busVars, serverVars>>

Finish(r) ==
    /\ Len(view[r]) = 3
    /\ view' = [view EXCEPT ![r] = <<>>]
    /\ UNCHANGED <<fileVars, watcherVars, busVars, serverVars>>

ReloadTick ==
    /\ age < Debounce \/ (watcher = "sleep" /\ slept < Settle)
    /\ age' = IF age < Debounce THEN age + 1 ELSE age
    /\ slept' = IF watcher = "sleep" /\ slept < Settle THEN slept + 1 ELSE slept
    /\ UNCHANGED <<fileVars, watcher, busVars, serverVars, view>>

WatcherStep == SkipEvent \/ TakeEvent \/ Load

ServerStep ==
    Receive \/ StoreRouter \/ StoreServices \/ StoreMiddlewares \/ StartHealthChecks

ReloadNext ==
    \/ Write
    \/ WatcherStep
    \/ ServerStep
    \/ Abort
    \/ \E r \in Requests : LoadCell(r) \/ Finish(r)
    \/ ReloadTick

ReloadSpec == ReloadInit /\ [][ReloadNext]_reloadVars

(* The watcher thread and the reload task are scheduled; time passes. *)
ReloadFairSpec ==
    ReloadSpec /\ WF_reloadVars(WatcherStep) /\ WF_reloadVars(ServerStep) /\ WF_reloadVars(ReloadTick)

-----------------------------------------------------------------------------
(* Shapes; only valid contents travel, no cell names a reload not begun. *)
ReloadTypeOK ==
    /\ disk \in 0 .. MaxWrites /\ events \in Nat
    /\ watcher \in WatcherStates /\ age \in 0 .. Debounce /\ slept \in 0 .. Settle
    /\ bus \in Seq(Valid) /\ Len(bus) <= Capacity /\ lagged \in BOOLEAN
    /\ server \in ServerStates /\ log \in Seq(Valid)
    /\ {router, services, middlewares} \subseteq 0 .. Len(log)
    /\ checked \subseteq 0 .. Len(log)
    /\ view \in [Requests -> Seq(0 .. Len(log))]
    /\ \A r \in Requests : Len(view[r]) <= 3

(***************************************************************************)
(* A request may see two configurations, for it loads three cells while a  *)
(* reload stores them; but what it loads is never more than one reload     *)
(* older than anything it loaded before: the stores of mod.rs:188 and the  *)
(* loads of listener.rs:223 go in the same order.                          *)
(***************************************************************************)
TearBounded ==
    \A r \in Requests : \A i, j \in DOMAIN view[r] :
        i < j => view[r][i] <= view[r][j] + 1

(***************************************************************************)
(* Between two reloads, and after the shutdown aborted the reload task,    *)
(* the three cells belong to one configuration: no reload stays half done. *)
(***************************************************************************)
RestsConsistent ==
    server \in {"recv", "dead"} =>
        router = Len(log) /\ services = Len(log) /\ middlewares = Len(log)

(***************************************************************************)
(* The configuration never goes back: contents are applied in the order in *)
(* which they were on disk, none overtaking another in the channel.        *)
(***************************************************************************)
NeverRollsBack ==
    LET applied == log \o bus IN
    \A i, j \in DOMAIN applied : i < j => applied[i] <= applied[j]

(***************************************************************************)
(* A valid content on disk while the watcher waits to read it is applied,  *)
(* unless it is overwritten first or the reload task is gone.              *)
(***************************************************************************)
TakenIsApplied ==
    \A n \in Valid :
        watcher = "sleep" /\ disk = n
            ~> \/ disk # n \/ server = "dead"
               \/ Applied = n /\ middlewares = Len(log)

(***************************************************************************)
(* "Debounce: wait for writes to complete before reloading"                *)
(* (watcher.rs:64): when the writes are over and the last one left a valid *)
(* file, that file becomes the configuration.                              *)
(***************************************************************************)
LastWriteApplied ==
    \A n \in Valid :
        <>[](disk = n /\ server # "dead") => <>[](Applied = n)

(***************************************************************************)
(* Reloads as a whole: requests see at most one of them under way, each is *)
(* finished, and they come in the order of the file.                       *)
(***************************************************************************)
ReloadIsSafe == TearBounded /\ RestsConsistent /\ NeverRollsBack
=============================================================================
