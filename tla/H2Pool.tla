------------------------------- MODULE H2Pool -------------------------------
(***************************************************************************)
(* The HTTP/2 connection pool (src/proxy/http2_client.rs): a map of hosts  *)
(* behind a read-write lock, and behind a mutex of its own the sender of   *)
(* each connection.  The read lock is held while the mutex is waited for,  *)
(* and the mutex is held until the response is there.  Both locks are      *)
(* tokio's and serve in order of arrival; a request makes at most one      *)
(* connection, which is named after it.                                    *)
(***************************************************************************)
EXTENDS Integers, Sequences

CONSTANTS
  H2Reqs,   \* requests
  HostOf,   \* the host and port of each
  NoConn    \* no connection

ASSUME H2Config == NoConn \notin H2Reqs

Hosts == {HostOf[r] : r \in H2Reqs}

VARIABLES
  conns,    \* connections: the connection of each host, or NoConn
  h2,       \* where each request is, and on which connection
  rw,       \* the lock of the map: its holders and those who wait, in order
  mutex,    \* the mutex of each connection: its holder, then those who wait
  open,     \* connections that are up
  users     \* history: who had been given a connection when it died

h2Vars == <<conns, h2, rw, mutex, open, users>>

H2Init ==
  /\ conns = [h \in Hosts |-> NoConn]
  /\ h2 = [r \in H2Reqs |-> [at |-> "new", conn |-> NoConn]]
  /\ rw = << >>
  /\ mutex = [c \in H2Reqs |-> << >>]
  /\ open = {}
  /\ users = [c \in H2Reqs |-> {}]

\* A reader holds the lock when only readers came before it, a writer when
\* nobody did.
Reader(r) == [req |-> r, write |-> FALSE]
Writer(r) == [req |-> r, write |-> TRUE]
HasRead(r) == \E k \in DOMAIN rw : rw[k] = Reader(r) /\ \A j \in 1 .. k : ~rw[j].write
HasWrite(r) == rw # << >> /\ rw[1] = Writer(r)
HasMutex(r, c) == mutex[c] # << >> /\ Head(mutex[c]) = r
LetGo(r) == SelectSeq(rw, LAMBDA e : e # Reader(r))
InMap(r) == conns[HostOf[r]]
Goes(r, place) == h2' = [h2 EXCEPT ![r].at = place]
Given(r, c) == h2' = [h2 EXCEPT ![r].at = "given", ![r].conn = c]

\* Mutant: a connection that has died is given out as well.
CheckNothing(r) ==
  /\ h2[r].at = "check" /\ HasMutex(r, InMap(r))
  /\ mutex' = [mutex EXCEPT ![InMap(r)] = Tail(@)]
  /\ rw' = LetGo(r)
  /\ Given(r, InMap(r))
  /\ UNCHANGED <<conns, open, users>>

\* Mutant: the request that finds the connection dead takes it out of the map
\* before it lets go of the mutex.
SendRemovesFirst(r) ==
  /\ h2[r].at = "queued" /\ HasMutex(r, h2[r].conn)
  /\ IF h2[r].conn \in open THEN Goes(r, "sent") /\ UNCHANGED <<mutex, rw, conns>>
     ELSE IF \A k \in DOMAIN rw : rw[k] # Writer(r)
     THEN rw' = Append(rw, Writer(r)) /\ UNCHANGED <<h2, mutex, conns>>
     ELSE /\ HasWrite(r) /\ rw' = Tail(rw)
          /\ conns' = [conns EXCEPT ![HostOf[r]] = NoConn]
          /\ mutex' = [mutex EXCEPT ![h2[r].conn] = Tail(@)]
          /\ Goes(r, "failed")
  /\ UNCHANGED <<open, users>>

\* get_or_create_connection asks for the read lock...
LockRead(r) ==
  /\ h2[r].at = "new"
  /\ rw' = Append(rw, Reader(r)) /\ Goes(r, "read")
  /\ UNCHANGED <<conns, mutex, open, users>>

\* ...and with it looks for a connection; is_ready asks for its mutex.
LookUp(r) ==
  /\ h2[r].at = "read" /\ HasRead(r)
  /\ IF InMap(r) = NoConn
     THEN rw' = LetGo(r) /\ Goes(r, "connect") /\ UNCHANGED mutex
     ELSE /\ mutex' = [mutex EXCEPT ![InMap(r)] = Append(@, r)]
          /\ Goes(r, "check") /\ UNCHANGED rw
  /\ UNCHANGED <<conns, open, users>>

\* is_ready has the mutex, answers, and both locks are let go.
IsReady(r) ==
  /\ h2[r].at = "check" /\ HasMutex(r, InMap(r))
  /\ mutex' = [mutex EXCEPT ![InMap(r)] = Tail(@)]
  /\ rw' = LetGo(r)
  /\ IF InMap(r) \in open THEN Given(r, InMap(r)) ELSE Goes(r, "connect")
  /\ UNCHANGED <<conns, open, users>>

\* create_connection: connect and handshake, either of which may fail.
CreateConnection(r) ==
  /\ h2[r].at = "connect"
  /\ \/ Goes(r, "failed") /\ UNCHANGED <<rw, open>>
     \/ open' = open \cup {r} /\ rw' = Append(rw, Writer(r)) /\ Goes(r, "insert")
  /\ UNCHANGED <<conns, mutex, users>>

\* The connection goes into the map, over another that came first.
Insert(r) ==
  /\ h2[r].at = "insert" /\ HasWrite(r)
  /\ conns' = [conns EXCEPT ![HostOf[r]] = r]
  /\ rw' = Tail(rw)
  /\ Given(r, r)
  /\ UNCHANGED <<mutex, open, users>>

\* send asks for the mutex...
LockSender(r) ==
  /\ h2[r].at = "given"
  /\ mutex' = [mutex EXCEPT ![h2[r].conn] = Append(@, r)]
  /\ Goes(r, "queued")
  /\ UNCHANGED <<conns, rw, open, users>>

\* ...and sends; a dead connection is an error of Ready, not ConnectionClosed,
\* so it stays in the map for the next request to replace.
SendOn(r) ==
  /\ h2[r].at = "queued" /\ HasMutex(r, h2[r].conn)
  /\ IF h2[r].conn \in open THEN Goes(r, "sent") /\ UNCHANGED mutex
     ELSE Goes(r, "failed") /\ mutex' = [mutex EXCEPT ![h2[r].conn] = Tail(@)]
  /\ UNCHANGED <<conns, rw, open, users>>

\* The response arrives, or the connection has died under the request.
RespondOn(r) ==
  /\ h2[r].at = "sent"
  /\ Goes(r, IF h2[r].conn \in open THEN "done" ELSE "failed")
  /\ mutex' = [mutex EXCEPT ![h2[r].conn] = Tail(@)]
  /\ UNCHANGED <<conns, rw, open, users>>

\* The backend or the network ends a connection.
Die(c) ==
  /\ c \in open /\ open' = open \ {c}
  /\ users' = [users EXCEPT ![c] = {r \in H2Reqs : h2[r].conn = c} \cup {c}]
  /\ UNCHANGED <<conns, h2, rw, mutex>>

H2Step(r) ==
  \/ LockRead(r) \/ LookUp(r) \/ IsReady(r) \/ CreateConnection(r) \/ Insert(r)
  \/ LockSender(r) \/ SendOn(r) \/ RespondOn(r)

H2Next == \E r \in H2Reqs : H2Step(r) \/ Die(r)

H2Spec == H2Init /\ [][H2Next]_h2Vars
H2FairSpec == H2Spec /\ \A r \in H2Reqs : WF_h2Vars(H2Step(r))

-----------------------------------------------------------------------------
(* Properties *)

\* A request fails on a dead connection only if it had been given it before it
\* died: nobody is handed a connection that has been seen dead.
FailsOnRaceOnly ==
  \A r \in H2Reqs :
    h2[r].at = "failed" /\ h2[r].conn # NoConn => r \in users[h2[r].conn]

\* Every request ends, however the two locks are waited for: the backend
\* answers or the connection dies.
H2RequestsEnd ==
  <>(\A r \in H2Reqs : h2[r].at \in {"done", "failed"})
=============================================================================
