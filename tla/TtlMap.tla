------------------------------- MODULE TtlMap -------------------------------
(***************************************************************************)
(* What the Store trait promises of its sessions, ACME challenges and      *)
(* leader keys: a map whose entries are served for the time to live they   *)
(* were stored with, and a leader key that only its holder can renew or    *)
(* release while it lives.                                                 *)
(***************************************************************************)
EXTENDS Naturals

CONSTANTS Keys, Task, Values, None, Ttls

VARIABLES kv   \* what a read returns, with the ticks it will be served for

ttlVars == <<kv>>

TtlInit == kv = [k \in Keys \cup {Task} |-> None]

TtlSet(k, v, t) == kv' = [kv EXCEPT ![k] = [val |-> v, left |-> t]]

TtlDelete(k) == kv' = [kv EXCEPT ![k] = None]

TtlAcquire(v, t) ==
  /\ kv[Task] = None \/ kv[Task].val = v
  /\ TtlSet(Task, v, t)

TtlRelease(v) ==
  /\ kv[Task] # None /\ kv[Task].val = v
  /\ TtlDelete(Task)

TtlTick ==
  kv' = [k \in Keys \cup {Task} |->
           IF kv[k] = None \/ kv[k].left = 1 THEN None
           ELSE [kv[k] EXCEPT !.left = @ - 1]]

TtlNext ==
  \/ \E k \in Keys : TtlDelete(k) \/ \E v \in Values, t \in Ttls : TtlSet(k, v, t)
  \/ \E v \in Values : TtlRelease(v) \/ \E t \in Ttls : TtlAcquire(v, t)
  \/ TtlTick

TtlSpec == TtlInit /\ [][TtlNext]_ttlVars
=============================================================================
