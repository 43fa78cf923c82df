--------------------------- MODULE ClusterProofs ----------------------------
(***************************************************************************)
(* Proofs about what the nodes of a cluster share, for any keys, values,   *)
(* times to live, nodes and sessions; and about the servers of a TCP or    *)
(* UDP service, which its connections share.                               *)
(***************************************************************************)
EXTENDS StoreKeys, Sticky, ConfigProvider, RateLimit, Pool, TLAPS

-----------------------------------------------------------------------------
(* Keys with a time to live                                                *)

\* What a reader gets of an entry.
Live(e) == IF e # None /\ e.left > 0 THEN e ELSE None

\* One entry of Redis beside the local store's: the same value, living no longer.
Within(r, l) == r # None => l # None /\ r.val = l.val /\ r.left <= l.left

\* The two entries of a leader key whose time to live is in whole seconds.
Same(r, l) == r = Live(l)

StoreInv ==
  /\ KeyTypeOK
  /\ \A k \in Keys : Within(remote[k], loc[k])
  /\ LeaderTtl = AsSecs(LeaderTtl) => Same(remote[Task], loc[Task])

-----------------------------------------------------------------------------
(* Entries *)

\* A time to live cut to whole seconds is positive and no longer.
LEMMA WholeSeconds ==
  ASSUME NEW t \in Nat \ {0, 1}
  PROVE  AsSecs(t) \in Nat /\ AsSecs(t) > 0 /\ AsSecs(t) <= t
BY DEF AsSecs

LEMMA NewEntry ==
  ASSUME NEW v \in Values, NEW t \in Nat \ {0, 1}
  PROVE  LET e == [val |-> v, left |-> t]
             r == [val |-> v, left |-> AsSecs(t)]
         IN  /\ e \in Entry /\ e # None /\ Live(e) = e
             /\ r \in Entry /\ r # None /\ r.left > 0
             /\ Within(r, e) /\ (t = AsSecs(t) => Same(r, e))
<1> DEFINE e == [val |-> v, left |-> t]
           r == [val |-> v, left |-> AsSecs(t)]
<1>1. AsSecs(t) \in Nat /\ AsSecs(t) > 0 /\ AsSecs(t) <= t /\ t > 0
  BY WholeSeconds
<1>2. e \in Entry /\ r \in Entry
  BY <1>1 DEF Entry
<1>3. e # None /\ r # None
  BY <1>2, KeysConfig DEF Entry
<1>4. Live(e) = e
  BY <1>1, <1>3 DEF Live
<1> QED BY <1>1, <1>2, <1>3, <1>4 DEF Within, Same

LEMMA NoneLives == Live(None) = None
BY DEF Live

LEMMA NoneAgrees == (\A l : Within(None, l)) /\ Same(None, None)
BY NoneLives DEF Within, Same

\* An entry a tick later, in the local store and in Redis.
LocalTicked(e) == IF e = None \/ e.left = 0 THEN e ELSE [e EXCEPT !.left = @ - 1]
RemoteTicked(e) == IF e = None \/ e.left = 1 THEN None ELSE [e EXCEPT !.left = @ - 1]

LEMMA TickedEntry ==
  ASSUME NEW e \in Entry, e.left > 0
  PROVE  /\ [e EXCEPT !.left = @ - 1] = [val |-> e.val, left |-> e.left - 1]
         /\ [val |-> e.val, left |-> e.left - 1] \in Entry
         /\ [val |-> e.val, left |-> e.left - 1] # None
<1>1. e.left \in Nat /\ e.val \in Values /\ e.left - 1 \in Nat
  BY DEF Entry
<1>2. [e EXCEPT !.left = @ - 1] = [val |-> e.val, left |-> e.left - 1]
  BY DEF Entry
<1>3. [val |-> e.val, left |-> e.left - 1] \in Entry
  BY <1>1 DEF Entry
<1> QED BY <1>2, <1>3, KeysConfig DEF Entry

LEMMA LocalTick ==
  ASSUME NEW e \in Entry \cup {None}
  PROVE  /\ LocalTicked(e) \in Entry \cup {None}
         /\ Live(LocalTicked(e)) = RemoteTicked(Live(e))
<1>1. CASE e = None
  BY <1>1 DEF LocalTicked, RemoteTicked, Live
<1>2. CASE e # None /\ e.left = 0
  BY <1>2 DEF LocalTicked, RemoteTicked, Live
<1>3. CASE e # None /\ e.left # 0
  <2>1. e \in Entry /\ e.left \in Nat /\ e.left > 0
    BY <1>3 DEF Entry
  <2>2. Live(e) = e
    BY <1>3, <2>1 DEF Live
  <2>3. LocalTicked(e) = [val |-> e.val, left |-> e.left - 1]
    BY <1>3, <2>1, TickedEntry DEF LocalTicked
  <2>4. LocalTicked(e) \in Entry /\ LocalTicked(e) # None /\ LocalTicked(e).left = e.left - 1
    BY <2>1, <2>3, TickedEntry, Zenon
  <2>5. CASE e.left = 1
    BY <1>3, <2>2, <2>4, <2>5 DEF RemoteTicked, Live
  <2>6. CASE e.left # 1
    <3>1. e.left - 1 > 0
      BY <2>1, <2>6
    <3>2. RemoteTicked(e) = LocalTicked(e)
      BY <1>3, <2>6 DEF RemoteTicked, LocalTicked
    <3>3. Live(LocalTicked(e)) = LocalTicked(e)
      BY <2>4, <3>1 DEF Live
    <3> QED BY <2>2, <2>4, <3>2, <3>3
  <2> QED BY <2>5, <2>6
<1> QED BY <1>1, <1>2, <1>3

LEMMA RemoteTickType ==
  ASSUME NEW r \in Entry \cup {None}, r # None => r.left > 0
  PROVE  /\ RemoteTicked(r) \in Entry \cup {None}
         /\ RemoteTicked(r) # None => RemoteTicked(r).left > 0
<1>1. CASE r = None \/ r.left = 1
  BY <1>1 DEF RemoteTicked
<1>2. CASE r # None /\ r.left # 1
  <2>1. r \in Entry /\ r.left \in Nat /\ r.left > 0
    BY <1>2 DEF Entry
  <2>2. r.left - 1 > 0
    BY <1>2, <2>1
  <2>3. RemoteTicked(r) = [val |-> r.val, left |-> r.left - 1] /\ RemoteTicked(r) \in Entry
    BY <1>2, <2>1, TickedEntry DEF RemoteTicked
  <2> QED BY <2>2, <2>3
<1> QED BY <1>1, <1>2

LEMMA RemoteTick ==
  ASSUME NEW r \in Entry \cup {None}, NEW l \in Entry \cup {None},
         r # None => r.left > 0, Within(r, l)
  PROVE  /\ RemoteTicked(r) \in Entry \cup {None}
         /\ RemoteTicked(r) # None => RemoteTicked(r).left > 0
         /\ Within(RemoteTicked(r), LocalTicked(l))
<1>1. CASE r = None \/ r.left = 1
  BY <1>1, NoneAgrees DEF RemoteTicked
<1>2. CASE r # None /\ r.left # 1
  <2>1. /\ r \in Entry /\ r.left \in Nat /\ r.left > 1
        /\ l \in Entry /\ l.left \in Nat /\ r.val = l.val /\ r.left <= l.left
    BY <1>2 DEF Entry, Within
  <2>2. r.left > 0 /\ l.left > 0 /\ l.left # 0 /\ r.left - 1 > 0 /\ r.left - 1 <= l.left - 1
    BY <2>1
  <2>3. RemoteTicked(r) = [val |-> r.val, left |-> r.left - 1] /\ RemoteTicked(r) \in Entry
    BY <1>2, <2>1, <2>2, TickedEntry DEF RemoteTicked
  <2>4. /\ LocalTicked(l) = [val |-> l.val, left |-> l.left - 1] /\ LocalTicked(l) # None
    BY <2>1, <2>2, KeysConfig, TickedEntry DEF LocalTicked, Entry
  <2> QED BY <2>1, <2>2, <2>3, <2>4 DEF Within
<1> QED BY <1>1, <1>2

-----------------------------------------------------------------------------
(* The invariant *)

LEMMA StoreInitInv == KeyInit => StoreInv
BY NoneAgrees, NoneLives DEF KeyInit, StoreInv, KeyTypeOK, AllKeys

\* What a step that changes one key has to show.
LEMMA OneKey ==
  ASSUME StoreInv, NEW k \in AllKeys, NEW l \in Entry \cup {None}, NEW r \in Entry \cup {None},
         r # None => r.left > 0,
         k \in Keys => Within(r, l),
         k = Task /\ LeaderTtl = AsSecs(LeaderTtl) => Same(r, l),
         loc' = [loc EXCEPT ![k] = l], remote' = [remote EXCEPT ![k] = r]
  PROVE  StoreInv'
<1>1. /\ loc \in [AllKeys -> Entry \cup {None}] /\ remote \in [AllKeys -> Entry \cup {None}]
      /\ \A j \in AllKeys : remote[j] # None => remote[j].left > 0
  BY DEF StoreInv, KeyTypeOK
<1>2. \A j \in AllKeys : /\ loc'[j] = IF j = k THEN l ELSE loc[j]
                         /\ remote'[j] = IF j = k THEN r ELSE remote[j]
  BY <1>1
<1>3. loc' \in [AllKeys -> Entry \cup {None}] /\ remote' \in [AllKeys -> Entry \cup {None}]
  BY <1>1
<1>4. \A j \in AllKeys : remote'[j] # None => remote'[j].left > 0
  BY <1>1, <1>2, ZenonT(30)
<1>5. \A j \in Keys : Within(remote'[j], loc'[j])
  BY <1>2, ZenonT(30) DEF AllKeys, StoreInv
<1>6. LeaderTtl = AsSecs(LeaderTtl) => Same(remote'[Task], loc'[Task])
  BY <1>2, ZenonT(30) DEF AllKeys, StoreInv
<1>7. KeyTypeOK'
  BY <1>3, <1>4, ZenonT(30) DEF KeyTypeOK
<1> QED BY <1>5, <1>6, <1>7, ZenonT(30) DEF StoreInv

\* A key that is left as it was.
LEMMA SameKey ==
  ASSUME KeyTypeOK, NEW k \in AllKeys
  PROVE  /\ loc = [loc EXCEPT ![k] = loc[k]] /\ remote = [remote EXCEPT ![k] = remote[k]]
         /\ loc[k] \in Entry \cup {None} /\ remote[k] \in Entry \cup {None}
         /\ remote[k] # None => remote[k].left > 0
BY DEF KeyTypeOK

LEMMA AcquireInv == ASSUME StoreInv, NEW n \in Values, Acquire(n) PROVE StoreInv'
<1> DEFINE e == [val |-> n, left |-> LeaderTtl]
           q == [val |-> n, left |-> AsSecs(LeaderTtl)]
           l == IF Live(loc[Task]) # None /\ loc[Task].val # n THEN loc[Task] ELSE e
           r == IF remote[Task] # None /\ remote[Task].val # n THEN remote[Task] ELSE q
<1>1. /\ e \in Entry /\ e # None /\ q \in Entry /\ q # None /\ q.left > 0
      /\ LeaderTtl = AsSecs(LeaderTtl) => Same(q, e)
  BY NewEntry, KeysConfig
<1>2. Task \in AllKeys /\ Task \notin Keys /\ KeyTypeOK
  BY KeysConfig DEF AllKeys, StoreInv
<1>3. LocalGet(Task) = Live(loc[Task])
  BY DEF LocalGet, Live
<1>4. loc' = [loc EXCEPT ![Task] = l] /\ remote' = [remote EXCEPT ![Task] = r]
  BY <1>2, <1>3, SameKey, Zenon DEF Acquire
<1>5. l \in Entry \cup {None} /\ r \in Entry \cup {None} /\ (r # None => r.left > 0)
  BY <1>1, <1>2, SameKey
<1>6. ASSUME LeaderTtl = AsSecs(LeaderTtl) PROVE Same(r, l)
  <2>1. remote[Task] = Live(loc[Task]) /\ Same(q, e)
    BY <1>1, <1>6 DEF StoreInv, Same
  <2>2. CASE remote[Task] # None /\ remote[Task].val # n
    <3>1. remote[Task] = loc[Task]
      BY <2>1, <2>2 DEF Live
    <3> QED BY <2>1, <2>2, <3>1, Zenon DEF Same
  <2>3. CASE ~(remote[Task] # None /\ remote[Task].val # n)
    <3>1. ~(Live(loc[Task]) # None /\ loc[Task].val # n)
      BY <2>1, <2>3 DEF Live
    <3> QED BY <2>1, <2>3, <3>1
  <2> QED BY <2>2, <2>3
<1> QED BY <1>2, <1>4, <1>5, <1>6, OneKey, Zenon

LEMMA ReleaseInv == ASSUME StoreInv, NEW n \in Values, Release(n) PROVE StoreInv'
<1> DEFINE l == IF loc[Task] # None /\ loc[Task].val = n THEN None ELSE loc[Task]
           r == IF remote[Task] # None /\ remote[Task].val = n THEN None ELSE remote[Task]
<1>1. Task \in AllKeys /\ Task \notin Keys /\ KeyTypeOK
  BY KeysConfig DEF AllKeys, StoreInv
<1>2. loc' = [loc EXCEPT ![Task] = l] /\ remote' = [remote EXCEPT ![Task] = r]
  BY <1>1, SameKey, Zenon DEF Release
<1>3. l \in Entry \cup {None} /\ r \in Entry \cup {None} /\ (r # None => r.left > 0)
  BY <1>1, SameKey
<1>4. ASSUME LeaderTtl = AsSecs(LeaderTtl) PROVE Same(r, l)
  <2>1. remote[Task] = Live(loc[Task])
    BY <1>4 DEF StoreInv, Same
  <2> QED BY <2>1 DEF Same, Live
<1> QED BY <1>1, <1>2, <1>3, <1>4, OneKey, Zenon

LEMMA CleanupInv == ASSUME StoreInv, Cleanup PROVE StoreInv'
<1>1. /\ remote' = remote /\ \A k \in AllKeys : loc'[k] = Live(loc[k])
      /\ loc' = [k \in AllKeys |-> Live(loc[k])]
  BY DEF Cleanup, LocalGet, Live
<1>2. loc \in [AllKeys -> Entry \cup {None}] /\ KeyTypeOK
  BY DEF StoreInv, KeyTypeOK
<1>3. \A k \in AllKeys : Live(loc[k]) \in Entry \cup {None}
  BY <1>2 DEF Live
<1>4. KeyTypeOK'
  BY <1>1, <1>2, <1>3 DEF KeyTypeOK
<1>5. ASSUME NEW k \in Keys PROVE Within(remote[k], Live(loc[k]))
  <2>1. CASE remote[k] = None
    BY <2>1, NoneAgrees
  <2>2. CASE remote[k] # None
    <3>1. /\ loc[k] # None /\ loc[k] \in Entry /\ remote[k] \in Entry
          /\ remote[k].left > 0 /\ remote[k].left <= loc[k].left
      BY <1>2, <2>2 DEF StoreInv, KeyTypeOK, Within, AllKeys
    <3>2. loc[k].left > 0
      BY <3>1 DEF Entry
    <3>3. Live(loc[k]) = loc[k]
      BY <3>1, <3>2 DEF Live
    <3> QED BY <3>3 DEF StoreInv
  <2> QED BY <2>1, <2>2
<1>6. Live(Live(loc[Task])) = Live(loc[Task])
  BY DEF Live
<1> QED BY <1>1, <1>4, <1>5, <1>6 DEF StoreInv, Same, AllKeys

LEMMA KeyTickInv == ASSUME StoreInv, KeyTick PROVE StoreInv'
<1>1. /\ loc' = [k \in AllKeys |-> LocalTicked(loc[k])]
      /\ remote' = [k \in AllKeys |-> RemoteTicked(remote[k])]
  BY DEF KeyTick, LocalTicked, RemoteTicked
<1>2. \A k \in AllKeys : /\ loc[k] \in Entry \cup {None} /\ remote[k] \in Entry \cup {None}
                         /\ remote[k] # None => remote[k].left > 0
  BY DEF StoreInv, KeyTypeOK
<1>3. \A k \in AllKeys : /\ LocalTicked(loc[k]) \in Entry \cup {None}
                         /\ RemoteTicked(remote[k]) \in Entry \cup {None}
                         /\ RemoteTicked(remote[k]) # None => RemoteTicked(remote[k]).left > 0
  BY <1>2, LocalTick, RemoteTickType, ZenonT(30)
<1>4. KeyTypeOK'
  BY <1>1, <1>3 DEF KeyTypeOK
<1>5. \A k \in Keys : Within(RemoteTicked(remote[k]), LocalTicked(loc[k]))
  BY <1>2, RemoteTick, ZenonT(30) DEF StoreInv, AllKeys
<1>6. LeaderTtl = AsSecs(LeaderTtl) => Same(RemoteTicked(remote[Task]), LocalTicked(loc[Task]))
  BY <1>2, LocalTick, ZenonT(30) DEF StoreInv, AllKeys, Same
<1> QED BY <1>1, <1>4, <1>5, <1>6 DEF StoreInv, AllKeys

LEMMA StoreNextInv == StoreInv /\ [KeyNext]_keyVars => StoreInv'
<1> SUFFICES ASSUME StoreInv, [KeyNext]_keyVars PROVE StoreInv'
  OBVIOUS
<1>1. ASSUME NEW k \in Keys, Delete(k) PROVE StoreInv'
  <2>1. k \in AllKeys /\ k # Task /\ None \in Entry \cup {None}
    BY KeysConfig DEF AllKeys
  <2> QED BY <1>1, <2>1, NoneAgrees, OneKey, Zenon DEF Delete
<1>2. ASSUME NEW k \in Keys, NEW v \in Values, NEW t \in Ttls, Set(k, v, t) PROVE StoreInv'
  <2>1. k \in AllKeys /\ k # Task /\ t \in Nat \ {0, 1}
    BY KeysConfig DEF AllKeys
  <2> DEFINE e == [val |-> v, left |-> t]
             r == [val |-> v, left |-> AsSecs(t)]
  <2>2. e \in Entry /\ r \in Entry /\ r.left > 0 /\ Within(r, e)
    BY <2>1, NewEntry
  <2> QED BY <1>2, <2>1, <2>2, OneKey, Zenon DEF Set
<1>3. CASE UNCHANGED keyVars
  BY <1>3 DEF keyVars, StoreInv, KeyTypeOK
<1> QED BY <1>1, <1>2, <1>3, AcquireInv, ReleaseInv, CleanupInv, KeyTickInv DEF KeyNext

LEMMA StoreAlways == KeySpec => []StoreInv
BY StoreInitInv, StoreNextInv, PTL DEF KeySpec

(***************************************************************************)
(* A session, a challenge or a leader that Redis serves is one the local   *)
(* store would serve, with the same value, for every set of keys and every *)
(* time to live of a second or more.                                       *)
(***************************************************************************)
THEOREM StoresServeAlike == KeySpec => [](KeyTypeOK /\ StoresAgree)
<1>1. ASSUME StoreInv PROVE StoresAgree
  <2>1. \A k : LocalGet(k) = Live(loc[k])
    BY DEF LocalGet, Live
  <2>2. ASSUME NEW k \in Keys, remote[k] # None
        PROVE  LocalGet(k) # None /\ LocalGet(k).val = remote[k].val
    <3>1. /\ loc[k] # None /\ loc[k] \in Entry /\ remote[k] \in Entry
          /\ remote[k].left > 0 /\ remote[k].left <= loc[k].left /\ remote[k].val = loc[k].val
      BY <1>1, <2>2 DEF StoreInv, KeyTypeOK, Within, AllKeys
    <3>2. loc[k].left > 0
      BY <3>1 DEF Entry
    <3> QED BY <2>1, <3>1, <3>2 DEF Live
  <2> QED BY <1>1, <2>1, <2>2 DEF StoresAgree, StoreInv, Same
<1>2. StoreInv => KeyTypeOK
  BY DEF StoreInv
<1> QED BY <1>1, <1>2, StoreAlways, PTL

-----------------------------------------------------------------------------
(* The local store as a map *)

Served == [k \in AllKeys |-> LocalGet(k)]

LEMMA ServedIs == Served = [k \in AllKeys |-> Live(loc[k])]
BY DEF Served, LocalGet, Live

\* What is served after one key has changed.
LEMMA ServedAfter ==
  ASSUME KeyTypeOK, NEW k \in AllKeys, NEW l, loc' = [loc EXCEPT ![k] = l]
  PROVE  Served' = [Served EXCEPT ![k] = Live(l)]
<1>1. \A j \in AllKeys : loc'[j] = IF j = k THEN l ELSE loc[j]
  BY DEF KeyTypeOK
<1>2. Served' = [j \in AllKeys |-> Live(loc'[j])]
  BY DEF Served, LocalGet, Live
<1> QED BY <1>1, <1>2, ServedIs

LEMMA ServedNext ==
  ASSUME KeyTypeOK, [KeyNext]_keyVars
  PROVE  T!TtlNext \/ Served' = Served
<1>0. Task \in AllKeys /\ AllKeys = Keys \cup {Task} /\ \A k \in Keys : k \in AllKeys
  BY DEF AllKeys
<1>1. ASSUME NEW k \in Keys, Delete(k) PROVE T!TtlDelete(k)
  <2>1. Served' = [Served EXCEPT ![k] = None]
    BY <1>0, <1>1, ServedAfter, NoneLives, Zenon DEF Delete
  <2> QED BY <2>1 DEF T!TtlDelete, Served
<1>2. ASSUME NEW k \in Keys, NEW v \in Values, NEW t \in Ttls, Set(k, v, t)
      PROVE  T!TtlSet(k, v, t)
  <2>1. Live([val |-> v, left |-> t]) = [val |-> v, left |-> t]
    BY NewEntry, KeysConfig, Zenon
  <2>2. Served' = [Served EXCEPT ![k] = [val |-> v, left |-> t]]
    BY <1>0, <1>2, <2>1, ServedAfter, Zenon DEF Set
  <2> QED BY <2>2 DEF T!TtlSet, Served
<1>3. ASSUME NEW n \in Values, Acquire(n)
      PROVE  T!TtlAcquire(n, LeaderTtl) \/ Served' = Served
  <2>1. LocalGet(Task) = Live(loc[Task])
    BY DEF LocalGet, Live
  <2>2. CASE LocalGet(Task) # None /\ loc[Task].val # n
    BY <1>3, <2>2 DEF Acquire, Served, LocalGet
  <2>3. CASE ~(LocalGet(Task) # None /\ loc[Task].val # n)
    <3>1. Live([val |-> n, left |-> LeaderTtl]) = [val |-> n, left |-> LeaderTtl]
      BY NewEntry, KeysConfig, Zenon
    <3>2. Served' = [Served EXCEPT ![Task] = [val |-> n, left |-> LeaderTtl]]
      BY <1>0, <1>3, <2>3, <3>1, ServedAfter DEF Acquire
    <3>3. Served[Task] = None \/ Served[Task].val = n
      BY <1>0, <2>3 DEF Served, LocalGet
    <3> QED BY <3>2, <3>3 DEF T!TtlAcquire, T!TtlSet, Served
  <2> QED BY <2>2, <2>3
<1>4. ASSUME NEW n \in Values, Release(n)
      PROVE  T!TtlRelease(n) \/ Served' = Served
  <2>1. CASE loc[Task] # None /\ loc[Task].val = n
    <3>1. Served' = [Served EXCEPT ![Task] = None]
      BY <1>0, <1>4, <2>1, ServedAfter, NoneLives, Zenon DEF Release
    <3>2. CASE LocalGet(Task) = None
      <4>1. Served = [Served EXCEPT ![Task] = None]
        BY <1>0, <3>2 DEF Served
      <4> QED BY <3>1, <4>1
    <3>3. CASE LocalGet(Task) # None
      <4>1. Served[Task] # None /\ Served[Task].val = n
        BY <1>0, <2>1, <3>3 DEF Served, LocalGet
      <4> QED BY <3>1, <4>1 DEF T!TtlRelease, T!TtlDelete, Served
    <3> QED BY <3>2, <3>3
  <2>2. CASE ~(loc[Task] # None /\ loc[Task].val = n)
    BY <1>4, <2>2 DEF Release, Served, LocalGet
  <2> QED BY <2>1, <2>2
<1>5. ASSUME Cleanup PROVE Served' = Served
  <2>1. \A k \in AllKeys : loc'[k] = Live(loc[k]) /\ Live(Live(loc[k])) = Live(loc[k])
    BY <1>5 DEF Cleanup, LocalGet, Live
  <2>2. Served' = [k \in AllKeys |-> Live(loc'[k])]
    BY DEF Served, LocalGet, Live
  <2> QED BY <2>1, <2>2, ServedIs
<1>6. ASSUME KeyTick PROVE T!TtlTick
  <2>1. \A k \in AllKeys : loc'[k] = LocalTicked(loc[k]) /\ loc[k] \in Entry \cup {None}
    BY <1>6 DEF KeyTick, LocalTicked, KeyTypeOK
  <2>2. Served' = [k \in AllKeys |-> Live(loc'[k])]
    BY DEF Served, LocalGet, Live
  <2>3. \A k \in AllKeys : Live(loc'[k]) = RemoteTicked(Served[k])
    BY <2>1, LocalTick, ServedIs
  <2>4. Served' = [k \in Keys \cup {Task} |-> RemoteTicked(Served[k])]
    BY <1>0, <2>2, <2>3
  <2> QED BY <2>4 DEF T!TtlTick, RemoteTicked, Served
<1>7. CASE UNCHANGED keyVars
  BY <1>7 DEF keyVars, Served, LocalGet
<1> QED BY <1>1, <1>2, <1>3, <1>4, <1>5, <1>6, <1>7 DEF KeyNext, T!TtlNext

(***************************************************************************)
(* LocalStore implements the map the Store trait promises: its sets,       *)
(* deletes, acquires and releases are those of the map, expired entries    *)
(* are gone for every reader at once, and cleanup is invisible.            *)
(***************************************************************************)
THEOREM LocalStoreImplements == KeySpec => LocalIsTtlMap
<1>1. KeyInit => T!TtlInit
  BY DEF KeyInit, T!TtlInit, AllKeys, LocalGet
<1>2. KeyTypeOK /\ [KeyNext]_keyVars => [T!TtlNext]_(T!ttlVars)
  BY ServedNext DEF T!ttlVars, Served
<1>3. StoreInv => KeyTypeOK
  BY DEF StoreInv
<1> QED
  BY <1>1, <1>2, <1>3, StoreAlways, PTL DEF KeySpec, LocalIsTtlMap, T!TtlSpec
-----------------------------------------------------------------------------
(* Sticky sessions                                                         *)

(***************************************************************************)
(* An entry in a cache is at least as old as the time since the store lost *)
(* its session with nothing in flight.  That takes a write, a lookup that  *)
(* found the session and the store itself to hold that time at zero.       *)
(***************************************************************************)
Fresh(s) ==
  /\ s \in newSids \/ s \in writes \/ stored[s] > 0 => quiet[s] = 0
  /\ \A n \in StickyNodes : lookup[n].found /\ lookup[n].id = s => quiet[s] = 0
  /\ \A n \in StickyNodes : cache[n][s] # NoEntry => quiet[s] <= cache[n][s]
  /\ s \in newSids => stored[s] = 0 /\ s \notin writes

StaleInv == StickyTypeOK /\ \A s \in Sids : Fresh(s)

LEMMA StickyInitInv == StickyInit => StaleInv
<1> SUFFICES ASSUME StickyInit PROVE StaleInv
  OBVIOUS
<1>1. StickyTypeOK
  BY StickyConfig DEF StickyInit, StickyTypeOK, NoLookup
<1>2. ASSUME NEW s \in Sids PROVE Fresh(s)
  BY DEF StickyInit, Fresh, NoLookup
<1> QED BY <1>1, <1>2 DEF StaleInv

\* The types of what belongs to one session on one node.
LEMMA StickyFacts ==
  ASSUME StickyTypeOK, NEW n \in StickyNodes, NEW s \in Sids
  PROVE  /\ cache[n] \in [Sids -> {NoEntry} \cup 0 .. CacheTtl]
         /\ cache[n][s] \in {NoEntry} \cup 0 .. CacheTtl
         /\ stored[s] \in 0 .. SessionTtl /\ stored[s] \in Nat
         /\ quiet[s] \in 0 .. CacheTtl /\ quiet[s] \in Nat
         /\ lookup[n].id \in Sids \cup {NoEntry} /\ lookup[n].found \in BOOLEAN
BY StickyConfig DEF StickyTypeOK

LEMMA CreateStale ==
  ASSUME StaleInv, NEW n \in StickyNodes, NEW s \in Sids, CreateSession(n, s)
  PROVE  StaleInv'
<1>0. StickyTypeOK /\ s \in newSids /\ quiet[s] = 0 /\ stored[s] = 0
  BY DEF StaleInv, Fresh, CreateSession
<1>1. PICK row \in {Swept(n), cache[n]} : cache' = [cache EXCEPT ![n] = [row EXCEPT ![s] = 0]]
  <2>1. PICK sweep \in BOOLEAN :
          cache' = [cache EXCEPT ![n] = [(IF sweep THEN Swept(n) ELSE cache[n]) EXCEPT ![s] = 0]]
    BY Zenon DEF CreateSession
  <2> QED BY <2>1, Zenon
<1>2. /\ row \in [Sids -> {NoEntry} \cup 0 .. CacheTtl]
      /\ \A j \in Sids : row[j] # NoEntry => row[j] = cache[n][j]
  BY <1>0, <1>1, StickyFacts DEF Swept
<1>3. 0 \in 0 .. CacheTtl
  BY StickyConfig
<1>4. [row EXCEPT ![s] = 0] \in [Sids -> {NoEntry} \cup 0 .. CacheTtl]
  BY <1>2, <1>3
<1>5. StickyTypeOK'
  BY <1>0, <1>1, <1>4, Zenon DEF CreateSession, StickyTypeOK
<1>6. ASSUME NEW j \in Sids, NEW m \in StickyNodes, cache'[m][j] # NoEntry
      PROVE  quiet[j] <= cache'[m][j]
  <2>1. CASE m = n /\ j = s
    BY <1>0, <1>1, <1>2, <2>1 DEF StickyTypeOK
  <2>2. CASE ~(m = n /\ j = s)
    <3>1. cache'[m][j] = cache[m][j]
      BY <1>0, <1>1, <1>2, <1>6, <2>2, Zenon DEF StickyTypeOK
    <3> QED BY <1>6, <3>1 DEF StaleInv, Fresh
  <2> QED BY <2>1, <2>2
<1>7. ASSUME NEW j \in Sids PROVE Fresh(j)'
  BY <1>0, <1>6 DEF StaleInv, Fresh, CreateSession
<1> QED BY <1>5, <1>7 DEF StaleInv

LEMMA StoreStale ==
  ASSUME StaleInv, NEW s \in Sids, StoreSession(s) \/ DeleteStored(s)
  PROVE  StaleInv'
<1>0. /\ StickyTypeOK /\ UNCHANGED <<cache, newSids, lookup, quiet>>
      /\ writes' \subseteq writes /\ deletes' \subseteq deletes
      /\ stored' \in {stored, [stored EXCEPT ![s] = SessionTtl], [stored EXCEPT ![s] = 0]}
  BY DEF StaleInv, StoreSession, DeleteStored
<1>1. stored' \in [Sids -> 0 .. SessionTtl]
  BY <1>0, StickyConfig DEF StickyTypeOK
<1>2. StickyTypeOK'
  BY <1>0, <1>1 DEF StickyTypeOK
<1>3. s \notin newSids
  BY <1>0 DEF StickyTypeOK, StoreSession, DeleteStored
<1>4. ASSUME NEW j \in Sids, stored'[j] > 0 PROVE stored[j] > 0 \/ j \in writes
  <2>1. CASE DeleteStored(s)
    BY <1>0, <1>4, <2>1, StickyConfig DEF DeleteStored, StickyTypeOK
  <2>2. CASE StoreSession(s)
    BY <1>0, <1>4, <2>2 DEF StoreSession, StickyTypeOK
  <2> QED BY <2>1, <2>2
<1>5. ASSUME NEW j \in Sids, j \in newSids PROVE stored'[j] = stored[j]
  BY <1>0, <1>3, <1>5 DEF StickyTypeOK
<1>6. ASSUME NEW j \in Sids PROVE Fresh(j)'
  BY <1>0, <1>4, <1>5 DEF StaleInv, Fresh
<1> QED BY <1>2, <1>6 DEF StaleInv

LEMMA AskStale ==
  ASSUME StaleInv, NEW n \in StickyNodes, NEW s \in Sids, Ask(n, s)
  PROVE  StaleInv'
<1>0. StickyTypeOK /\ UNCHANGED <<cache, stored, newSids, writes, deletes, quiet>>
  BY DEF StaleInv, Ask
<1>1. PICK found \in BOOLEAN :
         (found => stored[s] > 0) /\ lookup' = [lookup EXCEPT ![n] = [id |-> s, found |-> found]]
  BY Zenon DEF Ask
<1>3. lookup' \in [StickyNodes -> [id : Sids \cup {NoEntry}, found : BOOLEAN]]
  BY <1>0, <1>1 DEF StickyTypeOK
<1>4. StickyTypeOK'
  BY <1>0, <1>3 DEF StickyTypeOK
<1>5. ASSUME NEW j \in Sids, NEW m \in StickyNodes, lookup'[m].found, lookup'[m].id = j
      PROVE  quiet[j] = 0
  <2>1. CASE m = n
    <3>1. lookup'[n] = [id |-> s, found |-> found]
      BY <1>0, <1>1 DEF StickyTypeOK
    <3> QED BY <1>1, <1>5, <2>1, <3>1 DEF StaleInv, Fresh
  <2>2. CASE m # n
    <3>1. lookup'[m] = lookup[m]
      BY <1>0, <1>1, <2>2 DEF StickyTypeOK
    <3> QED BY <1>5, <3>1 DEF StaleInv, Fresh
  <2> QED BY <2>1, <2>2
<1>6. ASSUME NEW j \in Sids PROVE Fresh(j)'
  BY <1>0, <1>5 DEF StaleInv, Fresh
<1> QED BY <1>4, <1>6 DEF StaleInv

LEMMA FillStale ==
  ASSUME StaleInv, NEW n \in StickyNodes, Fill(n)
  PROVE  StaleInv'
<1> DEFINE id == lookup[n].id
<1>0. /\ StickyTypeOK /\ UNCHANGED <<stored, newSids, writes, deletes, quiet>>
      /\ lookup' = [lookup EXCEPT ![n] = NoLookup]
  BY DEF StaleInv, Fill
<1>1. lookup' \in [StickyNodes -> [id : Sids \cup {NoEntry}, found : BOOLEAN]]
  BY <1>0 DEF StickyTypeOK, NoLookup
<1>2. \A m \in StickyNodes : lookup'[m].found => m # n /\ lookup'[m] = lookup[m]
  BY <1>0 DEF StickyTypeOK, NoLookup
<1>3. CASE ~lookup[n].found
  <2>1. cache' = cache
    BY <1>3 DEF Fill
  <2>2. StickyTypeOK'
    BY <1>0, <1>1, <2>1, Zenon DEF StickyTypeOK
  <2>3. ASSUME NEW j \in Sids PROVE Fresh(j)'
    BY <1>0, <1>2, <2>1 DEF StaleInv, Fresh
  <2> QED BY <2>2, <2>3 DEF StaleInv
<1>4. CASE lookup[n].found /\ id \in Sids
  <2>1. cache' = [cache EXCEPT ![n] = [cache[n] EXCEPT ![id] = 0]] /\ quiet[id] = 0
    BY <1>4 DEF Fill, StaleInv, Fresh
  <2>2. 0 \in 0 .. CacheTtl
    BY StickyConfig
  <2>3. [cache[n] EXCEPT ![id] = 0] \in [Sids -> {NoEntry} \cup 0 .. CacheTtl]
    BY <1>0, <2>2, StickyFacts, <1>4
  <2>4. StickyTypeOK'
    BY <1>0, <1>1, <2>1, <2>3 DEF StickyTypeOK
  <2>5. ASSUME NEW j \in Sids, NEW m \in StickyNodes, cache'[m][j] # NoEntry
        PROVE  quiet[j] <= cache'[m][j]
    <3>1. CASE m = n /\ j = id
      BY <1>0, <2>1, <3>1 DEF StickyTypeOK
    <3>2. CASE ~(m = n /\ j = id)
      <4>1. cache'[m][j] = cache[m][j]
        BY <1>0, <2>1, <3>2 DEF StickyTypeOK
      <4> QED BY <2>5, <4>1 DEF StaleInv, Fresh
    <3> QED BY <3>1, <3>2
  <2>6. ASSUME NEW j \in Sids PROVE Fresh(j)'
    BY <1>0, <1>2, <2>5 DEF StaleInv, Fresh
  <2> QED BY <2>4, <2>6 DEF StaleInv
<1>5. CASE lookup[n].found /\ id \notin Sids
  <2>1. id = NoEntry
    BY <1>0, <1>5 DEF StickyTypeOK
  <2>2. cache' = [cache EXCEPT ![n] = [cache[n] EXCEPT ![id] = 0]]
    BY <1>5 DEF Fill
  <2>3. cache' = cache
    BY <1>0, <1>5, <2>2 DEF StickyTypeOK
  <2>4. StickyTypeOK'
    BY <1>0, <1>1, <2>3 DEF StickyTypeOK
  <2>5. ASSUME NEW j \in Sids PROVE Fresh(j)'
    BY <1>0, <1>2, <2>3 DEF StaleInv, Fresh
  <2> QED BY <2>4, <2>5 DEF StaleInv
<1> QED BY <1>3, <1>4, <1>5

LEMMA DeleteStale ==
  ASSUME StaleInv, NEW n \in StickyNodes, NEW s \in Sids, DeleteSession(n, s)
  PROVE  StaleInv'
<1>0. /\ StickyTypeOK /\ UNCHANGED <<stored, newSids, writes, lookup, quiet>>
      /\ cache' = [cache EXCEPT ![n] = [cache[n] EXCEPT ![s] = NoEntry]]
      /\ s \notin newSids /\ deletes' = deletes \cup {s}
  BY DEF StaleInv, DeleteSession
<1>1. [cache[n] EXCEPT ![s] = NoEntry] \in [Sids -> {NoEntry} \cup 0 .. CacheTtl]
  BY <1>0, StickyFacts
<1>2. StickyTypeOK'
  BY <1>0, <1>1 DEF StickyTypeOK
<1>3. ASSUME NEW j \in Sids, NEW m \in StickyNodes, cache'[m][j] # NoEntry
      PROVE  cache'[m][j] = cache[m][j]
  BY <1>0, <1>3, StickyFacts DEF StickyTypeOK
<1>4. ASSUME NEW j \in Sids PROVE Fresh(j)'
  BY <1>0, <1>3 DEF StaleInv, Fresh
<1> QED BY <1>2, <1>4 DEF StaleInv

\* One entry and one session a tick later.
Aged(a) == IF a = NoEntry \/ a = CacheTtl THEN a ELSE a + 1
Quieter(s) ==
  IF stored[s] > 0 \/ InFlight(s) \/ s \in newSids THEN 0
  ELSE IF quiet[s] < CacheTtl THEN quiet[s] + 1 ELSE CacheTtl

LEMMA AgedEntry ==
  ASSUME NEW a \in {NoEntry} \cup 0 .. CacheTtl
  PROVE  /\ Aged(a) \in {NoEntry} \cup 0 .. CacheTtl
         /\ Aged(a) # NoEntry => a \in 0 .. CacheTtl
         /\ a \in 0 .. CacheTtl => \A q \in 0 .. CacheTtl : q <= a =>
               /\ q < CacheTtl => q + 1 <= Aged(a)
               /\ 0 <= Aged(a)
               /\ q = CacheTtl => CacheTtl <= Aged(a)
BY StickyConfig DEF Aged

LEMMA TickStale == ASSUME StaleInv, StickyTick PROVE StaleInv'
<1>0. /\ StickyTypeOK /\ UNCHANGED <<newSids, writes, lookup, deletes>>
      /\ cache' = [n \in StickyNodes |-> [s \in Sids |-> Aged(cache[n][s])]]
      /\ stored' = [s \in Sids |-> IF stored[s] > 0 THEN stored[s] - 1 ELSE 0]
      /\ quiet' = [s \in Sids |-> Quieter(s)]
  BY DEF StaleInv, StickyTick, Aged, Quieter
<1>1. \A n \in StickyNodes, s \in Sids : Aged(cache[n][s]) \in {NoEntry} \cup 0 .. CacheTtl
  BY <1>0, StickyFacts, AgedEntry, ZenonT(30)
<1>2. cache' \in [StickyNodes -> [Sids -> {NoEntry} \cup 0 .. CacheTtl]]
  BY <1>0, <1>1
<1>3. \A s \in Sids : stored[s] \in 0 .. SessionTtl /\ quiet[s] \in 0 .. CacheTtl
  BY <1>0, Zenon DEF StickyTypeOK
<1>4. stored' \in [Sids -> 0 .. SessionTtl]
  BY <1>0, <1>3, StickyConfig
<1>5. ASSUME NEW s \in Sids PROVE Quieter(s) \in 0 .. CacheTtl
  BY <1>3, StickyConfig DEF Quieter
<1>6. quiet' \in [Sids -> 0 .. CacheTtl]
  BY <1>0, <1>5
<1>7. StickyTypeOK'
  BY <1>0, <1>2, <1>4, <1>6 DEF StickyTypeOK
<1>8. ASSUME NEW s \in Sids PROVE Fresh(s)'
  <2>1. s \in newSids \/ s \in writes \/ stored[s] > 0 => Quieter(s) = 0
    BY Zenon DEF Quieter, InFlight
  <2>2. stored'[s] > 0 => stored[s] > 0
    <3>1. stored'[s] = IF stored[s] > 0 THEN stored[s] - 1 ELSE 0
      BY <1>0, Zenon
    <3> QED BY <3>1
  <2>3. \A n \in StickyNodes : lookup[n].id = s => Quieter(s) = 0
    BY ZenonT(30) DEF Quieter, InFlight
  <2>4. ASSUME NEW n \in StickyNodes, Aged(cache[n][s]) # NoEntry
        PROVE  Quieter(s) <= Aged(cache[n][s])
    <3>1. cache[n][s] \in {NoEntry} \cup 0 .. CacheTtl
      BY <1>0, StickyFacts, Zenon
    <3>2. cache[n][s] \in 0 .. CacheTtl
      BY <2>4, <3>1, AgedEntry
    <3>3. quiet[s] <= cache[n][s] /\ quiet[s] \in 0 .. CacheTtl
      BY <1>3, <3>2, StickyConfig DEF StaleInv, Fresh
    <3>4. /\ quiet[s] < CacheTtl => quiet[s] + 1 <= Aged(cache[n][s])
          /\ 0 <= Aged(cache[n][s])
          /\ quiet[s] = CacheTtl => CacheTtl <= Aged(cache[n][s])
      BY <3>1, <3>2, <3>3, AgedEntry, ZenonT(30)
    <3>5. ~(quiet[s] < CacheTtl) => quiet[s] = CacheTtl
      BY <3>3, StickyConfig
    <3> QED BY <3>4, <3>5, ZenonT(30) DEF Quieter
  <2>5. s \in newSids => stored[s] = 0 /\ s \notin writes
    BY DEF StaleInv, Fresh
  <2>6. s \in newSids => stored'[s] = 0
    BY <1>0, <2>5
  <2>7. quiet'[s] = Quieter(s) /\ \A n \in StickyNodes : cache'[n][s] = Aged(cache[n][s])
    BY <1>0
  <2> QED BY <1>0, <2>1, <2>2, <2>3, <2>4, <2>5, <2>6, <2>7, ZenonT(60) DEF Fresh
<1> QED BY <1>7, <1>8 DEF StaleInv

LEMMA StickyNextInv == StaleInv /\ [StickyNext]_stickyVars => StaleInv'
<1>1. ASSUME StaleInv, UNCHANGED stickyVars PROVE StaleInv'
  BY <1>1 DEF stickyVars, StaleInv, StickyTypeOK, Fresh
<1>2. ASSUME NEW n \in StickyNodes, NEW s \in Sids, Get(n, s) PROVE UNCHANGED stickyVars
  BY <1>2 DEF Get
<1> QED
  BY <1>1, <1>2, CreateStale, AskStale, DeleteStale, FillStale, StoreStale, TickStale, ZenonT(60)
     DEF StickyNext

(***************************************************************************)
(* However create, lookup, delete and their awaited calls of the store     *)
(* interleave on any number of nodes, no node serves a session from its    *)
(* local cache for local_cache_ttl after the store lost it.                *)
(***************************************************************************)
THEOREM StalenessBounded == StickySpec => [](StickyTypeOK /\ StaleBounded)
<1>1. ASSUME StaleInv PROVE StaleBounded
  <2> SUFFICES ASSUME NEW n \in StickyNodes, NEW s \in Sids, Cached(n, s)
               PROVE  quiet[s] < CacheTtl
    BY DEF StaleBounded
  <2>1. /\ cache[n][s] # NoEntry /\ cache[n][s] < CacheTtl /\ quiet[s] <= cache[n][s]
        /\ cache[n][s] \in {NoEntry} \cup 0 .. CacheTtl /\ quiet[s] \in Nat
    BY <1>1, StickyFacts DEF StaleInv, Fresh, Cached
  <2> QED BY <2>1, StickyConfig
<1>2. StaleInv => StickyTypeOK
  BY DEF StaleInv
<1> QED BY <1>1, <1>2, StickyInitInv, StickyNextInv, PTL DEF StickySpec

-----------------------------------------------------------------------------
(* Configuration providers                                                 *)

\* A poll under way is about the document whose ETag it stored, and has
\* offered it once it has compared it.
PollInv(p) ==
  /\ poll[p].at # "idle" => poll[p].doc = etag[p]
  /\ poll[p].at \in {"write", "callback"} => offered[p] = poll[p].doc
  /\ poll[p].at = "idle" /\ etag[p] \notin BadDocs \cup {NoDoc} /\ p \notin missed
       => offered[p] = etag[p]

\* Unless replacements crossed, every callback to come brings the current
\* configuration, and it runs when none is to come.
CallbackInv ==
  ~crossed =>
    /\ \A p \in Providers : poll[p].at = "callback" => poll[p].doc = current
    /\ (\A p \in Providers : poll[p].at # "callback") => running = current

ProviderInv ==
  /\ etag \in [Providers -> Docs \cup {NoDoc}] /\ served \in [Providers -> Docs]
  /\ poll \in [Providers -> [at : {"idle", "fetched", "valid", "write", "callback"},
                             doc : Docs \cup {NoDoc}]]
  /\ offered \in [Providers -> Docs \cup {NoDoc}]
  /\ CallbackInv /\ \A p \in Providers : PollInv(p)

LEMMA AtRestType ==
  AtRest \in [at : {"idle", "fetched", "valid", "write", "callback"}, doc : Docs \cup {NoDoc}]
BY DEF AtRest

LEMMA ProviderInitInv == ProviderInit => ProviderInv
<1> SUFFICES ASSUME ProviderInit PROVE ProviderInv
  OBVIOUS
<1>1. etag \in [Providers -> Docs \cup {NoDoc}]
  BY DEF ProviderInit, FetchInitial
<1>2. \A p \in Providers : poll[p] = AtRest
  BY DEF ProviderInit
<1>3. running = current /\ offered = etag /\ served \in [Providers -> Docs]
      /\ poll \in [Providers -> {AtRest}]
  BY DEF ProviderInit
<1> QED BY <1>1, <1>2, <1>3, AtRestType DEF ProviderInv, CallbackInv, PollInv, AtRest

LEMMA ProviderNextInv == ProviderInv /\ [ProviderNext]_providerVars => ProviderInv'
<1> SUFFICES ASSUME ProviderInv, [ProviderNext]_providerVars PROVE ProviderInv'
  OBVIOUS
<1> USE AtRestType
<1>1. CASE UNCHANGED providerVars
  BY <1>1, Zenon DEF ProviderInv, CallbackInv, PollInv, providerVars
<1>2. ASSUME NEW p \in Providers, Publish(p) PROVE ProviderInv'
  <2>1. served' \in [Providers -> Docs]
    BY <1>2 DEF Publish, ProviderInv
  <2> QED BY <1>2, <2>1, Zenon DEF Publish, ProviderInv, CallbackInv, PollInv
<1>3. ASSUME NEW p \in Providers, Fetch(p) PROVE ProviderInv'
  <2>1. CASE /\ poll' = [poll EXCEPT ![p] = [at |-> "fetched", doc |-> served[p]]]
             /\ missed' = missed \ {p}
    BY <1>3, <2>1, SMTT(30) DEF Fetch, ProviderInv, CallbackInv, PollInv
  <2>2. CASE missed' = missed \cup {p} /\ UNCHANGED poll
    BY <1>3, <2>2, SMTT(30) DEF Fetch, ProviderInv, CallbackInv, PollInv
  <2> QED BY <1>3, <2>1, <2>2 DEF Fetch
<1>4. ASSUME NEW p \in Providers, Validate(p) PROVE ProviderInv'
  BY <1>4, SMTT(30) DEF Validate, ProviderInv, CallbackInv, PollInv, AtRest
<1>5. ASSUME NEW p \in Providers, Compare(p) PROVE ProviderInv'
  BY <1>5 DEF Compare, ProviderInv, CallbackInv, PollInv, AtRest
<1>6. ASSUME NEW p \in Providers, Replace(p) PROVE ProviderInv'
  <2>1. ~crossed' => \A q \in Providers : poll[q].at # "callback"
    BY <1>6 DEF Replace
  <2> QED BY <1>6, <2>1 DEF Replace, ProviderInv, CallbackInv, PollInv
<1>7. ASSUME NEW p \in Providers, Callback(p) PROVE ProviderInv'
  BY <1>7 DEF Callback, ProviderInv, CallbackInv, PollInv, AtRest
<1> QED BY <1>1, <1>2, <1>3, <1>4, <1>5, <1>6, <1>7 DEF ProviderNext

\* No document gets lost behind its ETag and, between polls, what runs is what
\* current_config names unless two replacements overlapped, for any number of
\* providers (fetch and poll_provider of cluster/provider.rs).
THEOREM ConfigurationIsKept == ProviderSpec => []ConfigurationKept
<1>1. ProviderInv => ConfigurationKept
  BY DEF ProviderInv, PollInv, CallbackInv, ConfigurationKept, NotSkipped, RunsCurrent, Quiet
<1> QED BY <1>1, ProviderInitInv, ProviderNextInv, PTL DEF ProviderSpec

-----------------------------------------------------------------------------
(* The token bucket                                                        *)

LEMMA DivAdds ==
  ASSUME NEW x \in Nat, NEW y \in Nat
  PROVE  x \div 1000 + y \div 1000 <= (x + y) \div 1000 /\ x \div 1000 \in Nat
OBVIOUS

\* Rounding each part down never credits more than rounding the whole.
LEMMA CreditAdds ==
  ASSUME NEW a \in Nat, NEW b \in Nat
  PROVE  Credit(a) \in Nat /\ Credit(a) + Credit(b) <= Credit(a + b)
<1> DEFINE x == a * TickMs * Average
           y == b * TickMs * Average
<1>1. TickMs \in Nat /\ Average \in Nat
  BY RateConfig
<1>2. x \in Nat /\ y \in Nat
  <2>1. a * TickMs \in Nat /\ b * TickMs \in Nat
    BY <1>1
  <2> QED BY <1>1, <2>1
<1>3. (a + b) * TickMs * Average = x + y
  <2>1. (a + b) * TickMs = a * TickMs + b * TickMs
    BY <1>1
  <2>2. a * TickMs \in Nat /\ b * TickMs \in Nat
    BY <1>1
  <2>3. \A u, v, w \in Nat : (u + v) * w = u * w + v * w
    OBVIOUS
  <2> QED BY <1>1, <2>1, <2>2, <2>3
<1> HIDE DEF x, y
<1>4. x \div 1000 + y \div 1000 <= (x + y) \div 1000 /\ x \div 1000 \in Nat
  BY <1>2, DivAdds
<1> QED BY <1>3, <1>4 DEF Credit, x, y

\* What was let in and what is left, up to the size, was there at the start or
\* was credited up to the last update.
RateInv ==
  /\ RateTypeOK
  /\ 1000 * spent + Smaller(tokens, Size) <= Size + Credit(born - age)

LEMMA SizeType == Size \in Nat /\ Size >= 1000 /\ 1000 * Larger(Burst, Average) \in Nat
BY RateConfig DEF Size, Larger

LEMMA RateInitInv == RateInit => RateInv
<1> SUFFICES ASSUME RateInit PROVE RateInv
  OBVIOUS
<1>1. Credit(born - age) \in Nat
  BY CreditAdds DEF RateInit
<1> QED BY <1>1, SizeType DEF RateInit, RateInv, RateTypeOK, Smaller

LEMMA RateNextInv == RateInv /\ [RateNext]_rateVars => RateInv'
<1> SUFFICES ASSUME RateInv, [RateNext]_rateVars PROVE RateInv'
  OBVIOUS
<1>0. /\ tokens \in Nat /\ age \in Nat /\ born \in Nat /\ spent \in Nat /\ age <= born
      /\ Size \in Nat /\ born - age \in Nat
      /\ 1000 * spent + Smaller(tokens, Size) <= Size + Credit(born - age)
  BY SizeType DEF RateInv, RateTypeOK
<1>1. CASE UNCHANGED rateVars
  BY <1>1 DEF rateVars, RateInv, RateTypeOK, Credit
<1>2. CASE Request /\ Filled < 1000
  BY <1>2 DEF Request, RateInv, RateTypeOK, Credit
<1>3. CASE Request /\ ~(Filled < 1000)
  <2>1. /\ tokens' = Filled - 1000 /\ age' = 0 /\ born' = born /\ spent' = spent + 1
    BY <1>3 DEF Request
  <2>2. /\ Credit(age) \in Nat /\ Credit(born - age) \in Nat /\ Credit(born) \in Nat
        /\ Credit(born - age) + Credit(age) <= Credit(born)
    <3>1. (born - age) + age = born
      BY <1>0
    <3>2. Credit(born - age) + Credit(age) <= Credit((born - age) + age)
      BY <1>0, CreditAdds
    <3> QED BY <1>0, <3>1, <3>2, CreditAdds
  <2>3. Filled \in Nat /\ Filled >= 1000 /\ Filled <= Size
        /\ Filled <= Smaller(tokens, Size) + Credit(age)
    BY <1>0, <1>3, <2>2 DEF Filled, Smaller
  <2>4. 1000 * spent' + Smaller(tokens', Size) <= Size + Credit(born)
    BY <1>0, <2>1, <2>2, <2>3 DEF Smaller
  <2>5. born' - age' = born
    BY <1>0, <2>1
  <2> QED BY <1>0, <2>1, <2>3, <2>4, <2>5 DEF RateInv, RateTypeOK
<1>4. CASE Sweep
  <2>1. /\ tokens' = 1000 * Larger(Burst, Average) /\ age' = 0 /\ born' = 0 /\ spent' = 0
    BY <1>4 DEF Sweep
  <2>2. Credit(born' - age') \in Nat
    BY <2>1, CreditAdds
  <2> QED BY <2>1, <2>2, SizeType DEF RateInv, RateTypeOK, Smaller
<1>5. CASE RateTick
  <2>1. age' = age + 1 /\ born' = born + 1 /\ tokens' = tokens /\ spent' = spent
    BY <1>5 DEF RateTick
  <2>2. born' - age' = born - age
    BY <1>0, <2>1
  <2> QED BY <1>0, <2>1, <2>2 DEF RateInv, RateTypeOK
<1> QED BY <1>1, <1>2, <1>3, <1>4, <1>5 DEF RateNext

\* A bucket lets in its burst and what its life has credited and never more,
\* for any average, burst and clock (TokenBucket::try_acquire).
THEOREM BucketLetsInNoMore == RateSpec => []LetsInNoMore
<1>1. ASSUME RateInv PROVE LetsInNoMore
  <2>1. /\ tokens \in Nat /\ age \in Nat /\ born \in Nat /\ spent \in Nat
        /\ Size \in Nat /\ born - age \in Nat
        /\ 1000 * spent + Smaller(tokens, Size) <= Size + Credit(born - age)
    BY <1>1, SizeType DEF RateInv, RateTypeOK
  <2>2. Credit(born - age) <= Credit(born) /\ Credit(born) \in Nat /\ Credit(born - age) \in Nat
    <3>1. (born - age) + age = born
      BY <2>1
    <3>2. Credit(born - age) + Credit(age) <= Credit((born - age) + age)
      BY <2>1, CreditAdds
    <3> QED BY <2>1, <3>1, <3>2, CreditAdds
  <2> QED BY <2>1, <2>2 DEF LetsInNoMore, Smaller
<1> QED BY <1>1, RateInitInv, RateNextInv, PTL DEF RateSpec

-----------------------------------------------------------------------------
(* The servers of a TCP or UDP service                                     *)

PickType == [at : {"idle", "again", "loop"}, tries : Nat, crossed : BOOLEAN,
             got : PoolIndex, served : BOOLEAN]

\* Server i is one of the k that the counter, now at n, has just passed.
Behind(n, i, k) == IF i < n THEN n - i <= k ELSE n + PoolSize - i <= k

\* A call in its loop holds its guard, so no flag changes under it; while
\* nobody else bumps the counter its attempts have met every server behind it.
LoopInv(c) ==
  call[c].at = "loop" =>
    /\ guards[c] # 0 /\ call[c].tries < PoolSize
    /\ ~call[c].crossed =>
         \A i \in PoolIndex : Behind(counter, i, call[c].tries) => ~alive[i]

PoolTypes ==
  /\ counter \in PoolIndex /\ alive \in [PoolIndex -> BOOLEAN]
  /\ guards \in [AllCallers -> 0 .. 2] /\ call \in [AllCallers -> PickType]

PoolInv ==
  /\ PoolTypes
  /\ \A c \in AllCallers : call[c].served /\ LoopInv(c)

\* The counter passes the server it was at and no other.
LEMMA Passed ==
  ASSUME NEW n \in PoolIndex, NEW i \in PoolIndex, NEW k \in Nat,
         Behind((n + 1) % PoolSize, i, k + 1)
  PROVE  i = n \/ Behind(n, i, k)
<1>1. (n + 1) % PoolSize = IF n + 1 = PoolSize THEN 0 ELSE n + 1
  BY PoolConfig DEF PoolIndex
<1>2. CASE n + 1 = PoolSize
  BY <1>1, <1>2, PoolConfig DEF Behind, PoolIndex
<1>3. CASE n + 1 # PoolSize
  BY <1>1, <1>3, PoolConfig DEF Behind, PoolIndex
<1> QED BY <1>2, <1>3

\* As many attempts as there are servers, but one, have met all the others.
LEMMA AllPassed ==
  ASSUME NEW n \in PoolIndex, NEW i \in PoolIndex, NEW k \in Nat, k + 1 >= PoolSize, i # n
  PROVE  Behind(n, i, k)
BY PoolConfig DEF Behind, PoolIndex

LEMMA NothingPassed == \A n, i \in PoolIndex : ~Behind(n, i, 0)
BY PoolConfig DEF Behind, PoolIndex

LEMMA CounterType == \A n \in PoolIndex : (n + 1) % PoolSize \in PoolIndex
BY PoolConfig DEF PoolIndex

LEMMA NoPickType == NoPick \in PickType
BY PoolConfig DEF NoPick, PickType, PoolIndex

LEMMA PoolInitInv == PoolInit => PoolInv
<1> SUFFICES ASSUME PoolInit PROVE PoolInv
  OBVIOUS
<1>1. counter \in PoolIndex
  BY PoolConfig DEF PoolInit, PoolIndex
<1>2. PoolTypes
  BY <1>1, NoPickType DEF PoolInit, PoolTypes
<1> QED BY <1>2 DEF PoolInit, PoolInv, LoopInv, NoPick

\* A call that is over, with a server that serves it well.
LEMMA WellServed ==
  ASSUME NEW c \in AllCallers, NEW i \in PoolIndex, alive[i] \/ NoneUp \/ call[c].crossed
  PROVE  /\ Returned(c, i) \in PickType
         /\ Returned(c, i).served /\ Returned(c, i).at = "idle"
<1>2. (alive[i] \/ NoneUp \/ call[c].crossed) = TRUE
  OBVIOUS
<1>3. Returned(c, i) = [at |-> "idle", tries |-> 0, crossed |-> FALSE, got |-> i, served |-> TRUE]
  BY <1>2, Zenon DEF Returned
<1> QED BY <1>3 DEF PickType

\* A call that is left alone goes on as it was.
LEMMA SameInv ==
  ASSUME PoolInv, NEW d \in AllCallers, UNCHANGED <<counter, alive>>,
         call'[d] = call[d], guards'[d] = guards[d]
  PROVE  call'[d].served /\ LoopInv(d)'
<1>1. counter' = counter /\ alive' = alive
  OBVIOUS
<1>2. call[d].served /\ LoopInv(d)
  BY Zenon DEF PoolInv
<1>3. LoopInv(d)'
  BY <1>1, <1>2, ZenonT(30) DEF LoopInv
<1> QED BY <1>2, <1>3, ZenonT(40)

LEMMA ReturnInv ==
  ASSUME PoolInv, NEW c \in AllCallers, NEW i \in PoolIndex,
         alive[i] \/ NoneUp \/ call[c].crossed, Return(c, i), UNCHANGED <<counter, alive>>
  PROVE  PoolInv'
<1>1. Returned(c, i) \in PickType /\ Returned(c, i).served /\ Returned(c, i).at = "idle"
  BY WellServed
<1>2. /\ call' = [call EXCEPT ![c] = Returned(c, i)]
      /\ guards' = [guards EXCEPT ![c] = 0]
  BY DEF Return
<1> HIDE DEF Returned
<1>3. PoolTypes'
  BY <1>1, <1>2 DEF PoolInv, PoolTypes
<1>4. ASSUME NEW d \in AllCallers
      PROVE  call'[d].served /\ LoopInv(d)'
  <2>1. CASE d = c
    BY <1>1, <1>2, <2>1 DEF PoolInv, PoolTypes, LoopInv
  <2>2. CASE d # c
    <3>1. call'[d] = call[d] /\ guards'[d] = guards[d]
      BY <1>2, <2>2 DEF PoolInv, PoolTypes
    <3> QED BY <3>1, SameInv
  <2> QED BY <2>1, <2>2
<1> QED BY <1>3, <1>4, Zenon DEF PoolInv

\* A call that begins its loop has met nobody yet.
LEMMA BeginInv ==
  ASSUME PoolInv, NEW c \in AllCallers, NEW g \in {1, 2}, NEW p \in {"again", "loop"},
         guards' = [guards EXCEPT ![c] = g],
         call' = [call EXCEPT ![c] = [NoPick EXCEPT !.at = p]],
         UNCHANGED <<counter, alive>>
  PROVE  PoolInv'
<1>1. call'[c].at = p /\ call'[c].tries = 0 /\ call'[c].served /\ call'[c] \in PickType
  BY NoPickType, Zenon DEF PoolInv, PoolTypes, NoPick, PickType
<1>2. \A d \in AllCallers \ {c} : call'[d] = call[d] /\ guards'[d] = guards[d]
  BY DEF PoolInv, PoolTypes
<1>3. guards'[c] = g /\ guards' \in [AllCallers -> 0 .. 2]
  BY DEF PoolInv, PoolTypes
<1>4. call' \in [AllCallers -> PickType]
  <2>1. DOMAIN call' = AllCallers /\ call' = [d \in AllCallers |-> call'[d]]
    BY Zenon DEF PoolInv, PoolTypes
  <2>2. \A d \in AllCallers : call'[d] \in PickType
    BY <1>1, <1>2 DEF PoolInv, PoolTypes
  <2> QED BY <2>1, <2>2, Zenon
<1>5. PoolTypes'
  BY <1>3, <1>4 DEF PoolInv, PoolTypes
<1>6. LoopInv(c)'
  <2>1. 0 < PoolSize /\ counter \in PoolIndex
    BY PoolConfig DEF PoolInv, PoolTypes
  <2> QED BY <1>1, <1>3, <2>1, NothingPassed DEF LoopInv
<1>7. ASSUME NEW d \in AllCallers
      PROVE  call'[d].served /\ LoopInv(d)'
  <2>1. CASE d = c
    BY <1>1, <1>6, <2>1, Zenon
  <2>2. CASE d # c
    BY <1>2, <2>2, SameInv
  <2> QED BY <2>1, <2>2
<1> QED BY <1>5, <1>7 DEF PoolInv

LEMMA SetCrossed ==
  ASSUME NEW r \in PickType
  PROVE  LET q == [r EXCEPT !.crossed = TRUE]
         IN  q \in PickType /\ q.crossed /\ q.at = r.at /\ q.tries = r.tries /\ q.served = r.served
BY Zenon DEF PickType

LEMMA SetTries ==
  ASSUME NEW r \in PickType
  PROVE  LET q == [r EXCEPT !.tries = @ + 1]
         IN  /\ q \in PickType /\ q.tries = r.tries + 1
             /\ q.at = r.at /\ q.crossed = r.crossed /\ q.served = r.served
BY DEF PickType

\* A call that is bumped by another is crossed if it is in its loop.
LEMMA BumpedInv ==
  ASSUME PoolInv, NEW d \in AllCallers, UNCHANGED <<alive>>, guards'[d] = guards[d],
         call'[d] = IF call[d].at = "loop" THEN [call[d] EXCEPT !.crossed = TRUE] ELSE call[d]
  PROVE  call'[d] \in PickType /\ call'[d].served /\ LoopInv(d)'
<1>1. call[d] \in PickType /\ call[d].served /\ LoopInv(d)
  BY Zenon DEF PoolInv, PoolTypes
<1>2. CASE call[d].at = "loop"
  <2>1. /\ call'[d] \in PickType /\ call'[d].crossed /\ call'[d].at = call[d].at
        /\ call'[d].tries = call[d].tries /\ call'[d].served = call[d].served
    BY <1>1, <1>2, SetCrossed, ZenonT(30)
  <2>2. LoopInv(d)'
    BY <1>1, <1>2, <2>1, ZenonT(30) DEF LoopInv
  <2> QED BY <1>1, <2>1, <2>2, Zenon
<1>3. CASE call[d].at # "loop"
  <2>1. call'[d] = call[d]
    BY <1>3, Zenon
  <2> QED BY <1>1, <1>3, <2>1, ZenonT(30) DEF LoopInv
<1> QED BY <1>2, <1>3

\* An attempt that ends, or goes on to the next server.
LEMMA AttemptInv ==
  ASSUME PoolInv, NEW c \in AllCallers, Attempt(c)
  PROVE  PoolInv'
<1> DEFINE i == IF alive[counter] THEN counter ELSE 0
           ends == alive[counter] \/ call[c].tries + 1 >= PoolSize
<1>0. /\ counter \in PoolIndex /\ call \in [AllCallers -> PickType] /\ call[c].tries \in Nat
      /\ guards \in [AllCallers -> 0 .. 2] /\ alive \in [PoolIndex -> BOOLEAN]
  BY DEF PoolInv, PoolTypes, PickType
<1>1. /\ call[c].at = "loop" /\ Bump(c, ends, i) /\ alive' = alive
      /\ call[c].served /\ LoopInv(c)
  BY Zenon DEF Attempt, PoolInv
<1>2. i \in PoolIndex
  BY <1>0, PoolConfig DEF PoolIndex
<1>3. ASSUME ends PROVE alive[i] \/ NoneUp \/ call[c].crossed
  <2>1. CASE alive[counter]
    BY <2>1
  <2>2. CASE ~alive[counter] /\ ~call[c].crossed
    <3>1. \A j \in PoolIndex \ {counter} : Behind(counter, j, call[c].tries)
      BY <1>0, <1>3, <2>2, AllPassed
    <3>2. \A j \in PoolIndex : Behind(counter, j, call[c].tries) => ~alive[j]
      BY <1>1, <2>2, Zenon DEF LoopInv
    <3> QED BY <2>2, <3>1, <3>2, Zenon DEF NoneUp
  <2> QED BY <2>1, <2>2
<1> HIDE DEF i
<1>4. /\ counter' = (counter + 1) % PoolSize
      /\ \A d \in AllCallers \ {c} :
           /\ call'[d] = IF call[d].at = "loop" THEN [call[d] EXCEPT !.crossed = TRUE]
                         ELSE call[d]
           /\ guards'[d] = guards[d]
      /\ ends => call'[c] = Returned(c, i) /\ guards' = [guards EXCEPT ![c] = 0]
      /\ ~ends => call'[c] = [call[c] EXCEPT !.tries = @ + 1] /\ guards' = guards
  BY <1>0, <1>1 DEF Bump
<1>5. ASSUME NEW d \in AllCallers
      PROVE  call'[d] \in PickType /\ call'[d].served /\ LoopInv(d)'
  <2>1. CASE d # c
    BY <1>1, <1>4, <2>1, BumpedInv, Zenon
  <2>2. CASE d = c /\ ends
    <3>1. Returned(c, i) \in PickType /\ Returned(c, i).served /\ Returned(c, i).at = "idle"
      BY <1>2, <1>3, <2>2, WellServed
    <3> QED BY <1>4, <2>2, <3>1 DEF LoopInv
  <2>3. CASE d = c /\ ~ends
    <3>1. /\ call'[c] \in PickType /\ call'[c].tries = call[c].tries + 1
          /\ call'[c].at = "loop" /\ call'[c].crossed = call[c].crossed
          /\ call'[c].served = call[c].served
      <4>1. call[c] \in PickType /\ call'[c] = [call[c] EXCEPT !.tries = @ + 1]
        BY <1>0, <1>4, <2>3
      <4> QED BY <1>1, <4>1, SetTries, ZenonT(30)
    <3>2. guards'[c] # 0 /\ call'[c].tries < PoolSize
      <4>1. guards[c] # 0
        BY <1>1, Zenon DEF LoopInv
      <4>2. ~(call[c].tries + 1 >= PoolSize)
        BY <2>3, Zenon
      <4> QED BY <1>0, <1>4, <2>3, <3>1, <4>1, <4>2, PoolConfig
    <3>3. ASSUME ~call[c].crossed, NEW j \in PoolIndex, Behind(counter', j, call[c].tries + 1)
          PROVE  ~alive[j]
      <4>1. j = counter \/ Behind(counter, j, call[c].tries)
        BY <1>0, <1>4, <3>3, Passed
      <4>2. ~alive[counter]
        BY <2>3
      <4> QED BY <1>1, <3>3, <4>1, <4>2, Zenon DEF LoopInv
    <3>4. LoopInv(c)'
      BY <1>1, <3>1, <3>2, <3>3, ZenonT(30) DEF LoopInv
    <3> QED BY <1>1, <2>3, <3>1, <3>4, Zenon
  <2> QED BY <2>1, <2>2, <2>3
<1>6. counter' \in PoolIndex /\ guards' \in [AllCallers -> 0 .. 2]
  BY <1>0, <1>4, CounterType
<1>7. call' \in [AllCallers -> PickType]
  <2>1. call' = [d \in AllCallers |-> call'[d]]
    BY <1>1 DEF Bump
  <2> QED BY <1>5, <2>1
<1> QED BY <1>0, <1>1, <1>5, <1>6, <1>7 DEF PoolInv, PoolTypes

\* Flags change only when no guard is held, that is outside every loop.
LEMMA MarkInv ==
  ASSUME PoolInv, NEW m \in Setters, MarkServer(m)
  PROVE  PoolInv'
<1>1. /\ \A c \in AllCallers : guards[c] = 0
      /\ counter' = counter /\ guards' = guards /\ call' = call
  BY DEF MarkServer
<1>2. alive' \in [PoolIndex -> BOOLEAN]
  <2>1. PICK i \in PoolIndex, up \in BOOLEAN : alive' = [alive EXCEPT ![i] = up]
    BY ZenonT(40) DEF MarkServer
  <2> QED BY <2>1 DEF PoolInv, PoolTypes
<1>3. PoolTypes'
  BY <1>1, <1>2 DEF PoolInv, PoolTypes
<1>4. ASSUME NEW d \in AllCallers PROVE call'[d].served /\ LoopInv(d)'
  <2>1. call[d].served /\ LoopInv(d)
    BY Zenon DEF PoolInv
  <2> QED BY <1>1, <2>1, Zenon DEF LoopInv
<1> QED BY <1>3, <1>4 DEF PoolInv

LEMMA PoolNextInv == PoolInv /\ [PoolNext]_poolVars => PoolInv'
<1> SUFFICES ASSUME PoolInv, [PoolNext]_poolVars PROVE PoolInv'
  OBVIOUS
<1>0. 0 \in PoolIndex /\ HashIndex \in PoolIndex
  BY PoolConfig DEF PoolIndex
<1>1. CASE counter' = counter /\ alive' = alive /\ guards' = guards /\ call' = call
  <2>1. ASSUME NEW d \in AllCallers PROVE call'[d].served /\ LoopInv(d)'
    BY <1>1, SameInv
  <2> QED BY <1>1, <2>1 DEF PoolInv, PoolTypes
<1>2. ASSUME NEW c \in AllCallers, Enter(c) PROVE PoolInv'
  <2>1. CASE NoneUp
    BY <1>0, <1>2, <2>1, ReturnInv DEF Enter
  <2>2. CASE ~NoneUp
    BY <1>2, <2>2, BeginInv DEF Enter
  <2> QED BY <2>1, <2>2
<1>3. ASSUME NEW c \in AllCallers, EnterHash(c) PROVE PoolInv'
  <2>1. CASE alive[HashIndex]
    BY <1>0, <1>3, <2>1, ReturnInv DEF EnterHash
  <2>2. CASE ~alive[HashIndex]
    BY <1>3, <2>2, BeginInv DEF EnterHash
  <2> QED BY <2>1, <2>2
<1>4. ASSUME NEW c \in AllCallers, EnterAgain(c) PROVE PoolInv'
  <2>1. CASE NoneUp
    BY <1>0, <1>4, <2>1, ReturnInv DEF EnterAgain
  <2>2. CASE ~NoneUp
    BY <1>4, <2>2, BeginInv DEF EnterAgain
  <2> QED BY <2>1, <2>2
<1>5. ASSUME NEW m \in Setters, MarkWait(m) PROVE PoolInv'
  BY <1>1, <1>5 DEF MarkWait
<1>6. CASE UNCHANGED poolVars
  BY <1>1, <1>6 DEF poolVars
<1> QED
  BY <1>2, <1>3, <1>4, <1>5, <1>6, AttemptInv, MarkInv, ZenonT(30) DEF PoolNext

\* A caller gets a healthy server whenever there is one, unless others moved
\* the counter between its attempts, for pools of any size and any number of
\* callers (next_server and get_server_by_hash of tcp/service.rs and
\* udp/service.rs).
THEOREM PoolPicksHealthy == PoolSpec => []PicksHealthy
<1>1. PoolInv => PicksHealthy
  BY ZenonT(30) DEF PoolInv, PicksHealthy
<1> QED BY <1>1, PoolInitInv, PoolNextInv, PTL DEF PoolSpec
=============================================================================
