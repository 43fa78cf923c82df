----------------------------- MODULE StoreKeys ------------------------------
(***************************************************************************)
(* The keys with a time to live of store/local.rs and store/valkey.rs:     *)
(* sticky sessions, ACME challenges and the leader key.  Both stores get   *)
(* the same calls in lock step.  The local store keeps an expired entry    *)
(* until cleanup runs and hides it from its readers; Redis drops it.  Time *)
(* is in half seconds, because the Valkey store cuts a time to live down   *)
(* to whole seconds.                                                       *)
(***************************************************************************)
EXTENDS Naturals

CONSTANTS
  Keys,         \* session ids and challenge tokens
  Task,         \* the key of leader election
  Values,       \* server urls, authorizations and node ids
  None,         \* no entry
  Ttls,         \* times to live of the entries, in half seconds
  LeaderTtl     \* leader_ttl, in half seconds

ASSUME KeysConfig ==
  /\ Task \notin Keys
  /\ None \notin [val : Values, left : Nat]
  /\ Ttls \subseteq Nat \ {0, 1} /\ LeaderTtl \in Nat \ {0, 1}

VARIABLES
  loc,     \* sticky_sessions, acme_challenges and leaders of LocalStore
  remote   \* the same keys in Redis

keyVars == <<loc, remote>>

AllKeys == Keys \cup {Task}

\* The guard of the getters: Some(entry) if entry.expires_at > now.
LocalGet(k) == IF loc[k] # None /\ loc[k].left > 0 THEN loc[k] ELSE None

\* ttl.as_secs(): whole seconds.
AsSecs(t) == 2 * (t \div 2)

KeyInit ==
  /\ loc = [k \in AllKeys |-> None] /\ remote = [k \in AllKeys |-> None]
-----------------------------------------------------------------------------
\* Mutated forms of the operations below.

SetForever(k, v, t) ==
  /\ loc' = [loc EXCEPT ![k] = [val |-> v, left |-> t]]
  /\ remote' = [remote EXCEPT ![k] = [val |-> v, left |-> AsSecs(t) + 2]]

AcquireSteals(n) ==
  /\ loc' = [loc EXCEPT ![Task] = [val |-> n, left |-> LeaderTtl]]
  /\ remote' = [remote EXCEPT ![Task] = [val |-> n, left |-> AsSecs(LeaderTtl)]]

-----------------------------------------------------------------------------
\* sticky_session_set, acme_challenge_set: insert, SET EX.
Set(k, v, t) ==
  /\ loc' = [loc EXCEPT ![k] = [val |-> v, left |-> t]]
  /\ remote' = [remote EXCEPT ![k] = [val |-> v, left |-> AsSecs(t)]]

\* sticky_session_delete, acme_challenge_delete: remove, DEL.
Delete(k) ==
  /\ loc' = [loc EXCEPT ![k] = None]
  /\ remote' = [remote EXCEPT ![k] = None]

\* leader_acquire: refused while a live entry of another node is there.
Acquire(n) ==
  /\ loc' = IF LocalGet(Task) # None /\ loc[Task].val # n THEN loc
            ELSE [loc EXCEPT ![Task] = [val |-> n, left |-> LeaderTtl]]
  /\ remote' = IF remote[Task] # None /\ remote[Task].val # n THEN remote
               ELSE [remote EXCEPT ![Task] = [val |-> n, left |-> AsSecs(LeaderTtl)]]

\* leader_release: only the holder's entry is removed, live or not.
Release(n) ==
  /\ loc' = IF loc[Task] # None /\ loc[Task].val = n
            THEN [loc EXCEPT ![Task] = None] ELSE loc
  /\ remote' = IF remote[Task] # None /\ remote[Task].val = n
               THEN [remote EXCEPT ![Task] = None] ELSE remote

\* LocalStore::cleanup: retain the entries with expires_at > now.
Cleanup ==
  /\ loc' = [k \in AllKeys |-> LocalGet(k)]
  /\ UNCHANGED remote

\* Half a second passes.
KeyTick ==
  /\ loc' = [k \in AllKeys |->
               IF loc[k] = None \/ loc[k].left = 0 THEN loc[k]
               ELSE [loc[k] EXCEPT !.left = @ - 1]]
  /\ remote' = [k \in AllKeys |->
                  IF remote[k] = None \/ remote[k].left = 1 THEN None
                  ELSE [remote[k] EXCEPT !.left = @ - 1]]

KeyNext ==
  \/ \E k \in Keys : Delete(k) \/ \E v \in Values, t \in Ttls : Set(k, v, t)
  \/ \E n \in Values : Acquire(n) \/ Release(n)
  \/ Cleanup \/ KeyTick

KeySpec == KeyInit /\ [][KeyNext]_keyVars

-----------------------------------------------------------------------------
Entry == [val : Values, left : Nat]

\* Every key holds an entry of a value and a time to live, or nothing, and
\* Redis holds no entry whose time is over.
KeyTypeOK ==
  /\ loc \in [AllKeys -> Entry \cup {None}]
  /\ remote \in [AllKeys -> Entry \cup {None}]
  /\ \A k \in AllKeys : remote[k] # None => remote[k].left > 0

(***************************************************************************)
(* What the Valkey store serves, the local store would serve too: the cut  *)
(* to whole seconds only makes it forget earlier, never later, and a       *)
(* session, challenge or leader is the same one in both.  With a leader    *)
(* time to live of whole seconds the two always name the same leader.      *)
(***************************************************************************)
StoresAgree ==
  /\ \A k \in Keys : remote[k] # None => /\ LocalGet(k) # None
                                         /\ LocalGet(k).val = remote[k].val
  /\ LeaderTtl = AsSecs(LeaderTtl) => LocalGet(Task) = remote[Task]

(***************************************************************************)
(* The local store, which hides expired entries and sweeps them later, is  *)
(* a map of entries with times to live: cleanup is never seen by a reader. *)
(***************************************************************************)
T == INSTANCE TtlMap WITH kv <- [k \in AllKeys |-> LocalGet(k)],
                          Ttls <- Ttls \cup {LeaderTtl}

LocalIsTtlMap == T!TtlSpec
=============================================================================
