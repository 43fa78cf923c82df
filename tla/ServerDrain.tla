----------------------------- MODULE ServerDrain -----------------------------
(***************************************************************************)
(* Graceful shutdown: the connection tasks the listeners spawn             *)
(* (src/server/listener.rs), the ConnectionTracker they share, and the     *)
(* shutdown path of Server::run (src/server/mod.rs), with the WebSocket    *)
(* tunnels that outlive their connection task (src/proxy/websocket.rs).    *)
(*                                                                         *)
(* Each connection is a task; connection_start is two atomic steps.        *)
(* Returning from run drops the runtime: nothing moves once main stopped.  *)
(***************************************************************************)
EXTENDS Naturals, FiniteSets

CONSTANTS
    Conns,         \* connections that clients may open
    DrainTimeout   \* drain_timeout, in ticks (30 s in the code)

ASSUME DrainConfig ==
    /\ IsFiniteSet(Conns)
    /\ DrainTimeout \in Nat

VARIABLES
    main,      \* where Server::run is
    draining,  \* ConnectionTracker.draining
    active,    \* ConnectionTracker.active
    task,      \* task[c]: the task spawned for an accepted connection
    tunnel,    \* tunnel[c]: the task spawned for a WebSocket upgrade
    elapsed,   \* ticks since wait_for_drain began
    timedOut,  \* wait_for_drain gave up at its deadline
    inflight,  \* history: connections counted when draining began
    late       \* history: connections accepted after draining began

trackerVars == <<draining, active>>
historyVars == <<inflight, late>>
vars == <<main, trackerVars, task, tunnel, elapsed, timedOut, historyVars>>

MainStates == {"running", "drain", "wait", "stopping", "stopped"}
TaskStates == {"none", "spawned", "passed", "serving", "refused", "done"}
TunnelStates == {"none", "open", "closed"}

Serving == {c \in Conns : task[c] = "serving"}

Init ==
    /\ main = "running"
    /\ draining = FALSE
    /\ active = 0
    /\ task = [c \in Conns |-> "none"]
    /\ tunnel = [c \in Conns |-> "none"]
    /\ elapsed = 0
    /\ timedOut = FALSE
    /\ inflight = {}
    /\ late = {}

-----------------------------------------------------------------------------
(* The accept loop spawns a task; it runs until its handle is aborted. *)
Accept(c) ==
    /\ main # "stopped"
    /\ task[c] = "none"
    /\ task' = [task EXCEPT ![c] = "spawned"]
    /\ late' = IF draining THEN late \cup {c} ELSE late
    /\ UNCHANGED <<main, trackerVars, tunnel, elapsed, timedOut, inflight>>

(* connection_start, first step: load draining. *)
CheckDraining(c) ==
    /\ main # "stopped"
    /\ task[c] = "spawned"
    /\ task' = [task EXCEPT ![c] = IF draining THEN "refused" ELSE "passed"]
    /\ UNCHANGED <<main, trackerVars, tunnel, elapsed, timedOut, historyVars>>

(* connection_start, second step: fetch_add. *)
Count(c) ==
    /\ main # "stopped"
    /\ task[c] = "passed"
    /\ task' = [task EXCEPT ![c] = "serving"]
    /\ active' = active + 1
    /\ UNCHANGED <<main, draining, tunnel, elapsed, timedOut, historyVars>>

(* A request of the connection is upgraded: a detached task takes over. *)
Upgrade(c) ==
    /\ main # "stopped"
    /\ task[c] = "serving" /\ tunnel[c] = "none"
    /\ tunnel' = [tunnel EXCEPT ![c] = "open"]
    /\ UNCHANGED <<main, trackerVars, task, elapsed, timedOut, historyVars>>

(***************************************************************************)
(* The TLS handshake failed, the client closed, or the upgrade handed the  *)
(* stream over: the task ends with connection_end.                         *)
(***************************************************************************)
End(c) ==
    /\ main # "stopped"
    /\ task[c] = "serving"
    /\ task' = [task EXCEPT ![c] = "done"]
    /\ active' = active - 1
    /\ UNCHANGED <<main, draining, tunnel, elapsed, timedOut, historyVars>>

CloseTunnel(c) ==
    /\ main # "stopped"
    /\ tunnel[c] = "open"
    /\ tunnel' = [tunnel EXCEPT ![c] = "closed"]
    /\ UNCHANGED <<main, trackerVars, task, elapsed, timedOut, historyVars>>

-----------------------------------------------------------------------------
(* The shutdown signal: the watcher is aborted and start_drain is called. *)
StartDrain ==
    /\ main = "running"
    /\ main' = "drain"
    /\ draining' = TRUE
    /\ inflight' = Serving
    /\ UNCHANGED <<active, task, tunnel, elapsed, timedOut, late>>

(* run skips the wait when active_count is zero. *)
CheckActive ==
    /\ main = "drain"
    /\ main' = IF active > 0 THEN "wait" ELSE "stopping"
    /\ UNCHANGED <<trackerVars, task, tunnel, elapsed, timedOut, historyVars>>

(* Mutant: one connection left is taken for none. *)
PollOneLeft ==
    /\ main = "wait"
    /\ active <= 1 \/ elapsed >= DrainTimeout
    /\ main' = "stopping"
    /\ timedOut' = (active > 1)
    /\ UNCHANGED <<trackerVars, task, tunnel, elapsed, historyVars>>

(***************************************************************************)
(* A round of wait_for_drain that ends it: no connection is left, or the   *)
(* deadline has passed.  Other rounds only sleep.                          *)
(***************************************************************************)
Poll ==
    /\ main = "wait"
    /\ active = 0 \/ elapsed >= DrainTimeout
    /\ main' = "stopping"
    /\ timedOut' = (active # 0)
    /\ UNCHANGED <<trackerVars, task, tunnel, elapsed, historyVars>>

(* The listeners are aborted and run returns. *)
Stop ==
    /\ main = "stopping"
    /\ main' = "stopped"
    /\ UNCHANGED <<trackerVars, task, tunnel, elapsed, timedOut, historyVars>>

Tick ==
    /\ main = "wait"
    /\ elapsed < DrainTimeout
    /\ elapsed' = elapsed + 1
    /\ UNCHANGED <<main, trackerVars, task, tunnel, timedOut, historyVars>>

Next ==
    \/ \E c \in Conns :
        \/ Accept(c)
        \/ CheckDraining(c)
        \/ Count(c)
        \/ Upgrade(c)
        \/ End(c)
        \/ CloseTunnel(c)
    \/ StartDrain
    \/ CheckActive
    \/ Poll
    \/ Stop
    \/ Tick

Spec == Init /\ [][Next]_vars

(* The main task is polled and time passes.  No client has to go away. *)
FairSpec == Spec /\ WF_vars(CheckActive \/ Poll \/ Stop) /\ WF_vars(Tick)

-----------------------------------------------------------------------------
(* Shapes; active is a usize, so it is never negative. *)
TypeOK ==
    /\ main \in MainStates
    /\ draining \in BOOLEAN
    /\ active \in Nat
    /\ task \in [Conns -> TaskStates]
    /\ tunnel \in [Conns -> TunnelStates]
    /\ elapsed \in 0 .. DrainTimeout
    /\ timedOut \in BOOLEAN
    /\ inflight \in SUBSET Conns
    /\ late \in SUBSET Conns

(***************************************************************************)
(* The counter is exact: it is the number of connections between their     *)
(* connection_start and their connection_end, so fetch_sub never wraps     *)
(* below zero and a connection refused while draining is never counted.    *)
(***************************************************************************)
CountExact == active = Cardinality(Serving)

(***************************************************************************)
(* What the drain really promises: if the server stopped before the        *)
(* deadline, every connection that was being served when the signal came   *)
(* was served to its end.  It promises no more: a connection between the   *)
(* two steps of connection_start, or a WebSocket tunnel whose connection   *)
(* task has ended, is not waited for.                                      *)
(***************************************************************************)
InflightServed ==
    main = "stopped" /\ ~timedOut => inflight \cap Serving = {}

(***************************************************************************)
(* A connection accepted after start_drain is never served.  (One accepted *)
(* before it may still be counted after it: the check and the fetch_add    *)
(* of connection_start are separate.)                                      *)
(***************************************************************************)
LateRefused == \A c \in late : task[c] \in {"spawned", "refused"}

(***************************************************************************)
(* Once the signal has come the server stops, even if no client ever goes  *)
(* away: wait_for_drain is bounded by its deadline.                        *)
(***************************************************************************)
ShutdownEnds == main = "drain" ~> main = "stopped"

(***************************************************************************)
(* The drain as a whole: the tracker counts exactly what is served, so the *)
(* drain that waits for it has served what it found and lets nothing in.   *)
(***************************************************************************)
DrainIsSafe == CountExact /\ InflightServed /\ LateRefused
=============================================================================
