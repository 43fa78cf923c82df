------------------------------ MODULE Tunnel --------------------------------
(***************************************************************************)
(* The two byte tunnels of the proxy: a TCP connection, tcp/proxy.rs, and  *)
(* an upgraded websocket, proxy/websocket.rs.  A connection is set up in   *)
(* steps that can each fail, then two copies run, one per direction.  The  *)
(* TCP copies are tasks of their own that both run to their end; the       *)
(* websocket copies are one select, which drops both with the first end.   *)
(* Data is counted in units; "up" goes to the backend.                     *)
(***************************************************************************)
EXTENDS Naturals

CONSTANTS
  Units,         \* bound on what each side sends
  HelloUnits,    \* the size of the client's TLS ClientHello
  HeaderUnits,   \* the size of the backend's answer to the upgrade
  BufUnits       \* the buffer the answer is read into

ASSUME TunnelConfig ==
  {Units, HelloUnits, HeaderUnits, BufUnits} \subseteq Nat \ {0}

VARIABLES
  kind,    \* "tcp" or "ws"
  tls,     \* whether the client starts with a ClientHello
  phase,   \* peek, peek again, route, connect, shake, upgrade, open, gone
  sni,     \* what the connection is routed by
  spoken,  \* units written by the sender of each direction
  ended,   \* whether it closed its side
  taken,   \* units read by the proxy
  given,   \* units written to the receiver
  lost,    \* units read and not passed on: the upgrade's answer
  copy,    \* the copy of each direction: off, run, ended, failed, cut
  eof      \* whether the receiver saw the end of the stream

tunVars == <<kind, tls, phase, sni, spoken, ended, taken, given, lost, copy, eof>>

setup == <<kind, tls, sni>>

wire == <<spoken, ended>>

Ways == {"up", "down"}

Back(d) == IF d = "up" THEN "down" ELSE "up"

TunInit ==
  /\ kind \in {"tcp", "ws"} /\ tls \in BOOLEAN
  /\ phase = IF kind = "tcp" THEN "peek" ELSE "connect"
  /\ sni = "none"
  /\ spoken = [d \in Ways |-> 0] /\ taken = spoken /\ given = spoken /\ lost = spoken
  /\ ended = [d \in Ways |-> FALSE] /\ eof = ended
  /\ copy = [d \in Ways |-> "off"]

\* The client may write from the start, the backend once it is connected.
Reachable(d) ==
  /\ phase # "gone"
  /\ d = "up" \/ phase \in {"shake", "upgrade", "open"}

Produce(d) ==
  /\ Reachable(d) /\ ~ended[d] /\ spoken[d] < Units
  /\ spoken' = [spoken EXCEPT ![d] = @ + 1]
  /\ UNCHANGED <<setup, phase, ended, taken, given, lost, copy, eof>>

HalfClose(d) ==
  /\ Reachable(d) /\ ~ended[d]
  /\ ended' = [ended EXCEPT ![d] = TRUE]
  /\ UNCHANGED <<setup, phase, spoken, taken, given, lost, copy, eof>>

\* Both sockets are dropped.
HangUp ==
  /\ phase' = "gone" /\ eof' = [d \in Ways |-> TRUE]
  /\ copy' = [d \in Ways |-> IF copy[d] = "run" THEN "cut" ELSE copy[d]]

-----------------------------------------------------------------------------
\* Mutated forms of the operations below.

EndCutsBoth(d) ==
  /\ copy[d] = "run" /\ taken[d] = spoken[d] /\ given[d] + lost[d] = taken[d] /\ ended[d]
  /\ phase' = "gone" /\ eof' = [e \in Ways |-> TRUE]
  /\ copy' = [e \in Ways |-> IF e = d THEN "ended" ELSE "cut"]
  /\ UNCHANGED <<setup, wire, taken, given, lost>>

EndWithoutShutdown(d) ==
  /\ copy[d] = "run" /\ taken[d] = spoken[d] /\ given[d] + lost[d] = taken[d] /\ ended[d]
  /\ copy' = [copy EXCEPT ![d] = "ended"]
  /\ UNCHANGED <<setup, wire, phase, taken, given, lost, eof>>

-----------------------------------------------------------------------------
\* peek_tls_sni: the first peek, which takes any data for a start.
Peek ==
  /\ phase = "peek"
  /\ spoken["up"] > 0 \/ ended["up"]
  /\ phase' = IF tls /\ spoken["up"] > 0 THEN "peek again" ELSE "route"
  /\ UNCHANGED <<setup, wire, taken, given, lost, copy, eof>>

PeekTimeout ==
  /\ phase = "peek" /\ spoken["up"] = 0 /\ ~ended["up"]
  /\ phase' = "route"
  /\ UNCHANGED <<setup, wire, taken, given, lost, copy, eof>>

\* The second peek returns what has come by now; the name is found in a
\* whole ClientHello only.
PeekAgain ==
  /\ phase = "peek again"
  /\ sni' = IF spoken["up"] >= HelloUnits THEN "name" ELSE "none"
  /\ phase' = "route"
  /\ UNCHANGED <<kind, tls, wire, taken, given, lost, copy, eof>>

\* match_connection, get_service and next_server find a server or not.
Routed ==
  /\ phase = "route"
  /\ \/ phase' = "connect" /\ UNCHANGED <<copy, eof>>
     \/ HangUp
  /\ UNCHANGED <<setup, wire, taken, given, lost>>

\* The connection is made, refused, or not made in time.
ConnectTcp ==
  /\ kind = "tcp" /\ phase = "connect"
  /\ \/ phase' = "open" /\ copy' = [d \in Ways |-> "run"] /\ UNCHANGED eof
     \/ HangUp
  /\ UNCHANGED <<setup, wire, taken, given, lost>>

\* A websocket may also fail in the url of the backend, the TLS handshake or
\* the writing of the upgrade request.
ConnectWs ==
  /\ kind = "ws" /\ phase = "connect"
  /\ \/ phase' = "shake" /\ UNCHANGED <<copy, eof>>
     \/ HangUp
  /\ UNCHANGED <<setup, wire, taken, given, lost>>

\* handle_websocket_upgrade reads the answer into a buffer of its own until
\* the end of the headers is in it; what follows the headers in the buffer
\* goes nowhere.
Shake ==
  /\ phase = "shake"
  /\ \E n \in 1 .. BufUnits :
       /\ taken["down"] + n <= spoken["down"] /\ taken["down"] + n <= BufUnits
       /\ taken' = [taken EXCEPT !["down"] = @ + n]
       /\ \/ /\ taken'["down"] >= HeaderUnits
             /\ lost' = [lost EXCEPT !["down"] = taken'["down"]]
             /\ phase' = "upgrade" /\ UNCHANGED <<copy, eof>>
          \/ taken'["down"] >= HeaderUnits /\ HangUp /\ UNCHANGED lost
          \/ /\ taken'["down"] < HeaderUnits /\ taken'["down"] < BufUnits
             /\ UNCHANGED <<phase, lost, copy, eof>>
          \/ /\ taken'["down"] < HeaderUnits /\ taken'["down"] = BufUnits
             /\ HangUp /\ UNCHANGED lost
  /\ UNCHANGED <<setup, wire, given>>

\* The backend closes, or the read fails, before the headers are complete.
ShakeFails ==
  /\ phase = "shake" /\ HangUp
  /\ UNCHANGED <<setup, wire, taken, given, lost>>

\* The 101 answer is out and the upgrade of the client's side resolves.
Upgrade ==
  /\ phase = "upgrade"
  /\ \/ phase' = "open" /\ copy' = [d \in Ways |-> "run"] /\ UNCHANGED eof
     \/ HangUp
  /\ UNCHANGED <<setup, wire, taken, given, lost>>

-----------------------------------------------------------------------------
\* One round of tokio::io::copy: a read, then a write.
Take(d) ==
  /\ copy[d] = "run" /\ taken[d] = given[d] + lost[d] /\ taken[d] < spoken[d]
  /\ taken' = [taken EXCEPT ![d] = @ + 1]
  /\ UNCHANGED <<setup, wire, phase, given, lost, copy, eof>>

Give(d) ==
  /\ copy[d] = "run" /\ given[d] + lost[d] < taken[d]
  /\ given' = [given EXCEPT ![d] = @ + 1]
  /\ UNCHANGED <<setup, wire, phase, taken, lost, copy, eof>>

\* A copy is over.  The TCP task shuts its writer down, on an error by
\* dropping it, and leaves the other task alone; the websocket's select
\* drops both streams.
Over(d, how) ==
  IF kind = "tcp"
  THEN /\ copy' = [copy EXCEPT ![d] = how] /\ eof' = [eof EXCEPT ![d] = TRUE]
       /\ phase' = IF copy[Back(d)] = "run" THEN "open" ELSE "gone"
  ELSE /\ copy' = [e \in Ways |-> IF e = d THEN how ELSE "cut"]
       /\ eof' = [e \in Ways |-> TRUE] /\ phase' = "gone"

End(d) ==
  /\ copy[d] = "run" /\ taken[d] = spoken[d] /\ given[d] + lost[d] = taken[d] /\ ended[d]
  /\ Over(d, "ended")
  /\ UNCHANGED <<setup, wire, taken, given, lost>>

\* A read or a write fails.
Break(d) ==
  /\ copy[d] = "run" /\ Over(d, "failed")
  /\ UNCHANGED <<setup, wire, taken, given, lost>>

TunNext ==
  \/ Peek \/ PeekTimeout \/ PeekAgain \/ Routed \/ ConnectTcp \/ ConnectWs
  \/ Shake \/ ShakeFails \/ Upgrade
  \/ \E d \in Ways : \/ Produce(d) \/ HalfClose(d)
                     \/ Take(d) \/ Give(d) \/ End(d) \/ Break(d)

TunSpec == TunInit /\ [][TunNext]_tunVars

SetupStep == Peek \/ PeekTimeout \/ PeekAgain \/ Routed \/ ConnectTcp \/ ConnectWs

CopyStep(d) == Take(d) \/ Give(d) \/ End(d)

\* The tasks run and timeouts fire; neither end has to send or to close.
TunFairSpec ==
  TunSpec /\ WF_tunVars(SetupStep) /\ \A d \in Ways : WF_tunVars(CopyStep(d))

-----------------------------------------------------------------------------

(***************************************************************************)
(* On an open tunnel the end of a stream comes after all of its data,      *)
(* unless the direction itself failed.  A websocket may cut one direction  *)
(* short when the other is over; a TCP connection may not: a client that   *)
(* closes its side still gets the whole answer.                            *)
(***************************************************************************)
EofMeansAll ==
  \A d \in Ways :
    eof[d] /\ copy[d] # "off" =>
      \/ ended[d] /\ given[d] + lost[d] = spoken[d]
      \/ copy[d] = "failed"
      \/ kind = "ws" /\ copy[Back(d)] \in {"ended", "failed"}

(***************************************************************************)
(* A sender's close reaches the other side of an open tunnel, and a TCP    *)
(* connection is open or refused in the end: every step of its set-up is   *)
(* immediate or has a timeout.  The websocket handshake has none.          *)
(***************************************************************************)
TunnelMoves ==
  /\ \A d \in Ways : phase = "open" /\ ended[d] ~> eof[d]
  /\ kind = "tcp" ~> phase \in {"open", "gone"}
=============================================================================
