-------------------------------- MODULE Udp ---------------------------------
(***************************************************************************)
(* The UDP proxy: udp/proxy.rs with the router and the services it asks.   *)
(* Every datagram is a task of its own; the first one of a client makes a  *)
(* session with a socket towards the backend and starts the listener that  *)
(* carries the answers back.  Sessions are kept under the client's address *)
(* only, so tasks and listeners of two sessions of one client can meet.    *)
(* Which server of the service a session leads to is the subject of Pool.  *)
(***************************************************************************)
EXTENDS Naturals

CONSTANTS
  Clients,      \* client addresses
  Tasks,        \* datagrams handled at the same time
  Socks,        \* sockets towards the backends; when they run out bind fails
  NoSock,       \* no socket
  Routes,       \* routes of the entrypoint: rule and priority
  Timeout       \* session_timeout, in ticks

ASSUME UdpConfig ==
  /\ NoSock \notin Socks /\ Timeout \in Nat
  /\ \A r \in Routes : r.catchAll \in BOOLEAN /\ r.ips \subseteq Clients
                       /\ r.priority \in Nat /\ r.known \in BOOLEAN

VARIABLES
  session,    \* sessions: socket and idle time of each client
  task,       \* handle_datagram calls
  listener,   \* listen_for_responses of each socket, with its client
  waited,     \* how long the listener has been in recv_from
  expired,    \* the addresses a sweep has collected
  deaf        \* history: sockets whose listener could not be started

udpVars == <<session, task, listener, waited, expired, deaf>>

NoSession == [sock |-> NoSock, idle |-> 0]

Resting == [at |-> "idle", client |-> NoSock, sock |-> NoSock]

UdpInit ==
  /\ session = [c \in Clients |-> NoSession]
  /\ task = [t \in Tasks |-> Resting]
  /\ listener = [k \in Socks |-> [at |-> "none", client |-> NoSock]]
  /\ waited = [k \in Socks |-> 0]
  /\ expired = {} /\ deaf = {}

HasSession(c) == session[c].sock # NoSock

\* A socket is closed when nothing holds it any more.
Free(k) ==
  /\ listener[k].at = "none"
  /\ \A c \in Clients : session[c].sock # k
  /\ \A t \in Tasks : task[t].sock # k

-----------------------------------------------------------------------------
\* UdpRule::matches; a rule that does not parse is a catch-all.
Matches(r, c) == r.catchAll \/ c \in r.ips

\* match_datagram: the specific routes come first, then the one catch-all
\* that from_config kept; each by priority.
MatchDatagram(c) ==
  LET specific == {r \in Routes : ~r.catchAll /\ Matches(r, c)}
      pool == IF specific # {} THEN specific ELSE {r \in Routes : r.catchAll}
  IN {r \in pool : \A s \in pool : s.priority =< r.priority}

-----------------------------------------------------------------------------
\* Mutated forms of the operations below.

RemoveQuietly(k) ==
  /\ listener[k].at = "remove"
  /\ listener' = [listener EXCEPT ![k] = [at |-> "none", client |-> NoSock]]
  /\ UNCHANGED <<session, task, waited, expired, deaf>>

CollectHeard ==
  /\ expired = {}
  /\ expired' = {c \in Clients : /\ HasSession(c) /\ session[c].idle > Timeout
                                 /\ listener[session[c].sock].at # "none"}
  /\ UNCHANGED <<session, task, listener, waited, deaf>>

-----------------------------------------------------------------------------
\* recv_from and the start of handle_datagram: a known client's datagram
\* refreshes its session; another one is routed, dropped without a route, a
\* service or a server.
Receive(t, c) ==
  /\ task[t].at = "idle"
  /\ IF HasSession(c)
     THEN /\ session' = [session EXCEPT ![c].idle = 0]
          /\ task' = [task EXCEPT ![t] =
                [Resting EXCEPT !.at = "send", !.client = c, !.sock = session[c].sock]]
     ELSE /\ \E r \in MatchDatagram(c) : r.known
          /\ task' = [task EXCEPT ![t] = [Resting EXCEPT !.at = "bind", !.client = c]]
          /\ UNCHANGED session
  /\ UNCHANGED <<listener, waited, expired, deaf>>

\* The new socket and the insertion of the session, which replaces another
\* datagram's; without a socket the datagram is lost.
Bind(t) ==
  /\ task[t].at = "bind"
  /\ \/ \E k \in {s \in Socks : Free(s)} :
          /\ task' = [task EXCEPT ![t].at = "first", ![t].sock = k]
          /\ session' = [session EXCEPT ![task[t].client] = [sock |-> k, idle |-> 0]]
     \/ task' = [task EXCEPT ![t] = Resting] /\ UNCHANGED session
  /\ UNCHANGED <<listener, waited, expired, deaf>>

\* forward_to_backend of a datagram with a session.
Send(t) ==
  /\ task[t].at = "send"
  /\ task' = [task EXCEPT ![t] = Resting]
  /\ UNCHANGED <<session, listener, waited, expired, deaf>>

\* ... and of the first one, which starts the listener unless it fails; the
\* listener ends at once when it has no socket for the answers.
SendFirst(t) ==
  /\ task[t].at = "first"
  /\ \/ /\ listener' = [listener EXCEPT ![task[t].sock] =
                          [at |-> "check", client |-> task[t].client]]
        /\ waited' = [waited EXCEPT ![task[t].sock] = 0]
        /\ deaf' = deaf \ {task[t].sock}
     \/ deaf' = deaf \cup {task[t].sock} /\ UNCHANGED <<listener, waited>>
  /\ task' = [task EXCEPT ![t] = Resting]
  /\ UNCHANGED <<session, expired>>

\* listen_for_responses: any session of the client keeps it going.
Look(k) ==
  /\ listener[k].at = "check"
  /\ listener' = [listener EXCEPT ![k].at =
                    IF HasSession(listener[k].client) THEN "wait" ELSE "remove"]
  /\ waited' = [waited EXCEPT ![k] = 0]
  /\ UNCHANGED <<session, task, expired, deaf>>

\* An answer: whatever session the client has now is refreshed.
BackendAnswer(k) ==
  /\ listener[k].at = "wait"
  /\ LET c == listener[k].client
     IN session' = IF HasSession(c) THEN [session EXCEPT ![c].idle = 0] ELSE session
  /\ listener' = [listener EXCEPT ![k].at = "check"]
  /\ UNCHANGED <<task, waited, expired, deaf>>

\* An error of the socket, or session_timeout without an answer.
ReceiveError(k) ==
  /\ listener[k].at = "wait"
  /\ listener' = [listener EXCEPT ![k].at = "remove"]
  /\ UNCHANGED <<session, task, waited, expired, deaf>>

ReceiveTimeout(k) ==
  /\ listener[k].at = "wait" /\ waited[k] >= Timeout
  /\ listener' = [listener EXCEPT ![k].at = "remove"]
  /\ UNCHANGED <<session, task, waited, expired, deaf>>

\* sessions.remove(client): whichever session is there.
RemoveSession(k) ==
  /\ listener[k].at = "remove"
  /\ session' = [session EXCEPT ![listener[k].client] = NoSession]
  /\ listener' = [listener EXCEPT ![k] = [at |-> "none", client |-> NoSock]]
  /\ UNCHANGED <<task, waited, expired, deaf>>

\* cleanup_expired_sessions: the addresses are collected, then removed.
Collect ==
  /\ expired = {}
  /\ expired' = {c \in Clients : HasSession(c) /\ session[c].idle > Timeout}
  /\ UNCHANGED <<session, task, listener, waited, deaf>>

SweepOut ==
  /\ expired # {}
  /\ session' = [c \in Clients |-> IF c \in expired THEN NoSession ELSE session[c]]
  /\ expired' = {}
  /\ UNCHANGED <<task, listener, waited, deaf>>

UdpTick ==
  /\ session' = [c \in Clients |-> IF HasSession(c) /\ session[c].idle =< Timeout
                                   THEN [session[c] EXCEPT !.idle = @ + 1]
                                   ELSE session[c]]
  /\ waited' = [k \in Socks |-> IF listener[k].at = "wait" /\ waited[k] < Timeout
                                THEN waited[k] + 1 ELSE waited[k]]
  /\ UNCHANGED <<task, listener, expired, deaf>>

UdpNext ==
  \/ \E t \in Tasks : \/ Bind(t) \/ Send(t) \/ SendFirst(t)
                      \/ \E c \in Clients : Receive(t, c)
  \/ \E k \in Socks : \/ Look(k) \/ BackendAnswer(k) \/ ReceiveError(k) \/ ReceiveTimeout(k)
                      \/ RemoveSession(k)
  \/ Collect \/ SweepOut \/ UdpTick

UdpSpec == UdpInit /\ [][UdpNext]_udpVars

TaskGoesOn(t) == Bind(t) \/ Send(t) \/ SendFirst(t)

ListenerGoesOn(k) == Look(k) \/ ReceiveTimeout(k) \/ RemoveSession(k)

\* Tasks and listeners run, the sweep comes round and time passes.
UdpFairSpec ==
  /\ UdpSpec /\ WF_udpVars(Collect \/ SweepOut) /\ WF_udpVars(UdpTick)
  /\ \A t \in Tasks : WF_udpVars(TaskGoesOn(t))
  /\ \A k \in Socks : WF_udpVars(ListenerGoesOn(k))

-----------------------------------------------------------------------------

(***************************************************************************)
(* The answers of a session have a way back: while a session is in the map *)
(* the listener of its socket runs, or its first datagram is still being   *)
(* forwarded, or the listener could not be started.  Sessions that were    *)
(* overwritten, swept or made again never leave one behind without it.     *)
(***************************************************************************)
SessionsAreHeard ==
  \A c \in Clients :
    HasSession(c) => \/ listener[session[c].sock] \in [at : {"check", "wait", "remove"},
                                                        client : {c}]
                     \/ \E t \in Tasks : task[t].at = "first" /\ task[t].sock = session[c].sock
                     \/ session[c].sock \in deaf

(***************************************************************************)
(* When no more datagrams and no more answers come, every session, every   *)
(* listener and every socket is given up, whichever of them were           *)
(* overwritten, swept or left without a listener before.                   *)
(***************************************************************************)
SocketsReleased ==
  /\ <>[](\A t \in Tasks : task[t].at = "idle")
  /\ <>[][\A k \in Socks : ~BackendAnswer(k)]_udpVars
  => <>[](\A k \in Socks : Free(k))
=============================================================================
