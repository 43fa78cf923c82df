--------------------------- MODULE TrafficProofs ----------------------------
(***************************************************************************)
(* Proofs about certificates, datagrams and tunnels: what a crash may lose *)
(* of the certificates, that the answers of a UDP session have a way back, *)
(* and what the end of a tunnelled stream means.  They hold for any domain *)
(* sets, clients, sockets, sizes and faults.                               *)
(***************************************************************************)
EXTENDS Acme, Udp, Tunnel, TLAPS

-----------------------------------------------------------------------------
(* Certificates.  What is served is what the storage has in memory, unless *)
(* the cache is about to be refreshed or the save failed, and what is in   *)
(* memory is on disk, unless its save failed.                              *)

Maybe == Cert \cup {NoCert}

Steps == {"none", "new", "authorize", "respond", "challenge", "ready", "store", "refresh"}

AcmeTypes ==
  /\ mem \in [DomainSets -> Maybe] /\ disk \in [DomainSets -> Maybe] /\ served \in [DomainSets -> Maybe]
  /\ order \in [set : DomainSets \cup {NoCert}, step : Steps, tries : Int]
  /\ process \in {"down", "starting", "serving"}

\* An order under way in its challenge has registered the answer.
TokenInv ==
  /\ order.step \in {"respond", "challenge"} => order.set \in tokens
  /\ process = "down" => order = NoOrder

SavedInv == \A s \in DomainSets : mem[s] # NoCert /\ s \notin unsaved => disk[s] = mem[s]

CacheInv ==
  \A s \in DomainSets : served[s] # NoCert =>
    /\ mem[s] # NoCert /\ served[s] =< mem[s]
    /\ s \in unsaved \/ order.step = "refresh" \/ served[s] = mem[s]

AcmeInv == AcmeTypes /\ TokenInv /\ SavedInv /\ CacheInv

LEMMA CertFacts == Life \in Nat /\ Margin \in Nat /\ Margin < Life /\ NoCert \notin Cert /\ Cert \subseteq Int
                   /\ Life \in Cert /\ Margin - 1 \in Cert
BY AcmeConfig DEF Cert

\* Time leaves the order of two certificates as it is.
LEMMA OlderCert ==
  ASSUME NEW m \in [DomainSets -> Maybe]
  PROVE  /\ Older(m) \in [DomainSets -> Maybe]
         /\ \A s \in DomainSets : /\ Older(m)[s] = NoCert <=> m[s] = NoCert
                                  /\ m[s] # NoCert => Older(m)[s] = IF m[s] = -1 THEN -1 ELSE m[s] - 1
<1>1. ASSUME NEW s \in DomainSets
      PROVE  /\ Older(m)[s] \in Maybe /\ (Older(m)[s] = NoCert <=> m[s] = NoCert)
             /\ m[s] # NoCert => Older(m)[s] = IF m[s] = -1 THEN -1 ELSE m[s] - 1
  BY CertFacts DEF Older, Maybe, Cert
<1>2. Older(m) \in [DomainSets -> Maybe]
  BY <1>1 DEF Older
<1> QED BY <1>1, <1>2

LEMMA UnexpiredCert ==
  ASSUME NEW m \in [DomainSets -> Maybe]
  PROVE  /\ Unexpired(m) \in [DomainSets -> Maybe]
         /\ \A s \in DomainSets : Unexpired(m)[s] # NoCert => Unexpired(m)[s] = m[s]
BY DEF Unexpired, Maybe

\* The three facts the run checks follow from the invariant.
LEMMA AcmeInvSafe == AcmeInv => AcmeSafe
<1> SUFFICES ASSUME AcmeInv PROVE AcmeSafe
  OBVIOUS
<1>1. AnswerReady
  BY DEF AcmeInv, TokenInv, AnswerReady, At
<1>2. ServedIsSaved
  <2> SUFFICES ASSUME NEW s \in DomainSets, served[s] # NoCert, s \notin unsaved
               PROVE  disk[s] # NoCert /\ disk[s] >= served[s]
    BY DEF ServedIsSaved
  <2>1. mem[s] \in Cert /\ served[s] \in Cert
    BY DEF AcmeInv, AcmeTypes, CacheInv, Maybe
  <2>2. disk[s] = mem[s] /\ served[s] =< mem[s] /\ mem[s] # NoCert
    BY DEF AcmeInv, SavedInv, CacheInv
  <2> QED BY <2>1, <2>2, CertFacts
<1>3. StaleOnlyUnsaved
  <2> SUFFICES ASSUME NEW s \in DomainSets, served[s] = -1, mem[s] >= 0
               PROVE  s \in unsaved \/ order.step = "refresh"
    BY DEF StaleOnlyUnsaved
  <2>1. served[s] # NoCert
    BY CertFacts DEF Cert
  <2> QED BY <2>1 DEF AcmeInv, CacheInv
<1> QED BY <1>1, <1>2, <1>3 DEF AcmeSafe

LEMMA AcmeInitInv == AcmeInit => AcmeInv
<1> SUFFICES ASSUME AcmeInit PROVE AcmeInv
  OBVIOUS
<1>1. AcmeTypes
  BY CertFacts DEF AcmeInit, AcmeTypes, Maybe, NoOrder, Steps
<1> QED BY <1>1 DEF AcmeInit, AcmeInv, TokenInv, SavedInv, CacheInv, NoOrder

\* A step that touches no certificate keeps the invariant, unless it gives up
\* the refresh of the cache or the answer to a challenge.
LEMMA OrderKeeps ==
  ASSUME AcmeInv, UNCHANGED <<mem, disk, served, unsaved>>,
         process' \in {"down", "starting", "serving"},
         order' \in [set : DomainSets \cup {NoCert}, step : Steps, tries : Int],
         order.step = "refresh" => order'.step = "refresh", TokenInv'
  PROVE  AcmeInv'
<1>1. AcmeTypes'
  BY DEF AcmeInv, AcmeTypes
<1>2. SavedInv' /\ CacheInv'
  BY DEF AcmeInv, SavedInv, CacheInv
<1> QED BY <1>1, <1>2 DEF AcmeInv

LEMMA GoType ==
  ASSUME NEW s \in DomainSets, NEW step \in Steps, Go(s, step)
  PROVE  /\ order' \in [set : DomainSets \cup {NoCert}, step : Steps, tries : Int]
         /\ order'.set = s /\ order'.step = step
BY DEF Go

LEMMA AbandonType ==
  ASSUME Abandon
  PROVE  /\ order' \in [set : DomainSets \cup {NoCert}, step : Steps, tries : Int]
         /\ order'.step = "none" /\ order' = NoOrder
BY DEF Abandon, NoOrder, Steps

\* The passes of start-up and renewal, and the order up to the storing.
LEMMA OrderStepInv ==
  ASSUME AcmeInv,
         \/ \E s \in DomainSets :
              \/ Ensure(s) \/ Renew(s) \/ NewOrder(s) \/ AlreadyValid(s) \/ Register(s)
              \/ Respond(s) \/ Validate(s) \/ PollChallenge(s) \/ Finalize(s)
         \/ BootFails \/ Listen \/ RenewalPass \/ RequestFails
  PROVE  AcmeInv'
<1>0. /\ order \in [set : DomainSets \cup {NoCert}, step : Steps, tries : Int]
      /\ process \in {"down", "starting", "serving"} /\ TokenInv
  BY Zenon DEF AcmeInv, AcmeTypes
<1>1. ASSUME NEW s \in DomainSets, Ensure(s) \/ Renew(s) PROVE AcmeInv'
  <2>1. CASE Go(s, "new")
    <3>1. order'.step = "new" /\ order' \in [set : DomainSets \cup {NoCert}, step : Steps, tries : Int]
      BY <2>1, GoType, Zenon DEF Steps
    <3>2. order.step = "none" /\ process \in {"starting", "serving"} /\ process' = process
          /\ UNCHANGED <<mem, disk, served, unsaved>>
      <4>1. CASE Ensure(s)  BY <1>1, <4>1 DEF Ensure, Idle, NoOrder, Starting
      <4>2. CASE Renew(s)  BY <1>1, <4>2 DEF Renew, Idle, NoOrder
      <4> QED BY <1>1, <4>1, <4>2
    <3> QED BY <3>1, <3>2, OrderKeeps DEF TokenInv
  <2>2. CASE UNCHANGED order
    BY <1>0, <1>1, <2>2, OrderKeeps DEF Ensure, Renew, Starting, TokenInv, Idle, NoOrder
  <2> QED BY <1>1, <2>1, <2>2 DEF Ensure, Renew
<1>2. ASSUME NEW s \in DomainSets, NewOrder(s) \/ AlreadyValid(s) PROVE AcmeInv'
  <2>1. PICK step \in {"authorize", "ready"} : Go(s, step)
    BY <1>2 DEF NewOrder, AlreadyValid
  <2>2. order'.step \in {"authorize", "ready"}
        /\ order' \in [set : DomainSets \cup {NoCert}, step : Steps, tries : Int]
    BY <2>1, GoType DEF Steps
  <2>3. order.step \in {"new", "authorize"} /\ process # "down" /\ process' = process
        /\ UNCHANGED <<mem, disk, served, unsaved>>
    BY <1>0, <1>2 DEF NewOrder, AlreadyValid, At, TokenInv, NoOrder
  <2> QED BY <1>0, <2>2, <2>3, OrderKeeps DEF TokenInv
<1>3. ASSUME NEW s \in DomainSets, Register(s) PROVE AcmeInv'
  <2>1. order'.step = "respond" /\ order'.set = s
        /\ order' \in [set : DomainSets \cup {NoCert}, step : Steps, tries : Int]
    BY <1>3, GoType DEF Register, Steps
  <2>2. order.step = "authorize" /\ process # "down" /\ process' = process /\ s \in tokens'
        /\ UNCHANGED <<mem, disk, served, unsaved>>
    BY <1>0, <1>3 DEF Register, At, TokenInv, NoOrder
  <2> QED BY <1>0, <2>1, <2>2, OrderKeeps DEF TokenInv
<1>4. ASSUME NEW s \in DomainSets, Respond(s) PROVE AcmeInv'
  <2>1. order'.step = "challenge" /\ order'.set = s
        /\ order' \in [set : DomainSets \cup {NoCert}, step : Steps, tries : Int]
    BY <1>4, GoType DEF Respond, Steps
  <2>2. order.step = "respond" /\ order.set = s /\ process # "down" /\ process' = process
        /\ tokens' = tokens /\ UNCHANGED <<mem, disk, served, unsaved>>
    BY <1>0, <1>4 DEF Respond, At, TokenInv, NoOrder
  <2> QED BY <1>0, <2>1, <2>2, OrderKeeps DEF TokenInv
<1>5. ASSUME NEW s \in DomainSets, PollChallenge(s) PROVE AcmeInv'
  <2>1. order.step = "challenge" /\ order.set = s /\ process # "down" /\ process' = process
        /\ UNCHANGED <<mem, disk, served, unsaved>>
    BY <1>0, <1>5 DEF PollChallenge, At, TokenInv, NoOrder
  <2>2. CASE Go(s, "ready")
    BY <1>0, <2>1, <2>2, GoType, OrderKeeps DEF TokenInv, Steps
  <2>3. CASE Abandon
    BY <1>0, <2>1, <2>3, AbandonType, OrderKeeps DEF TokenInv
  <2>4. CASE tokens' = tokens /\ order' = [order EXCEPT !.tries = @ + 1]
    <3>1. order' \in [set : DomainSets \cup {NoCert}, step : Steps, tries : Int]
          /\ order'.step = order.step /\ order'.set = order.set
      BY <1>0, <2>4
    <3> QED BY <1>0, <2>1, <2>4, <3>1, OrderKeeps DEF TokenInv
  <2> QED BY <1>5, <2>2, <2>3, <2>4 DEF PollChallenge
<1>6. ASSUME NEW s \in DomainSets, Finalize(s) PROVE AcmeInv'
  <2>1. order.step = "ready" /\ process # "down" /\ process' = process
        /\ UNCHANGED <<mem, disk, served, unsaved>>
    BY <1>0, <1>6 DEF Finalize, At, TokenInv, NoOrder
  <2>2. CASE Go(s, "store")
    BY <1>0, <2>1, <2>2, GoType, OrderKeeps DEF TokenInv, Steps
  <2>3. CASE order' = [order EXCEPT !.tries = @ + 1]
    <3>1. order' \in [set : DomainSets \cup {NoCert}, step : Steps, tries : Int]
          /\ order'.step = order.step
      BY <1>0, <2>3
    <3> QED BY <1>0, <2>1, <3>1, OrderKeeps DEF TokenInv
  <2> QED BY <1>6, <2>2, <2>3 DEF Finalize
<1>7. CASE RequestFails
  BY <1>0, <1>7, AbandonType, OrderKeeps, Zenon DEF RequestFails, TokenInv
<1>8. CASE BootFails \/ Listen \/ RenewalPass \/ \E s \in DomainSets : Validate(s)
  BY <1>0, <1>8, OrderKeeps DEF BootFails, Listen, RenewalPass, Validate, TokenInv, Starting
<1> QED BY <1>1, <1>2, <1>3, <1>4, <1>5, <1>6, <1>7, <1>8

\* The steps that change what is stored, served or held.
LEMMA CertStepInv ==
  ASSUME AcmeInv,
         \/ \E s \in DomainSets : Store(s) \/ StoreUnsaved(s) \/ Refresh(s) \/ Handshake(s)
         \/ Boot \/ Crash \/ AcmeTick \/ QuietTick
  PROVE  AcmeInv'
<1>0. AcmeTypes /\ TokenInv /\ SavedInv /\ CacheInv
  BY DEF AcmeInv
<1>a. mem \in [DomainSets -> Maybe] /\ disk \in [DomainSets -> Maybe] /\ served \in [DomainSets -> Maybe]
  BY <1>0 DEF AcmeTypes
<1>1. CASE Boot
  <2>1. mem' = disk /\ served' = Unexpired(disk) /\ disk' = disk /\ order' = order /\ order = NoOrder
        /\ process' = "starting"
    BY <1>0, <1>1 DEF Boot, TokenInv
  <2>2. AcmeTypes'
    BY <1>0, <1>a, <2>1, UnexpiredCert DEF AcmeTypes
  <2>3. \A s \in DomainSets : served'[s] # NoCert => served'[s] = mem'[s] /\ mem'[s] \in Int
    BY <1>a, <2>1, UnexpiredCert, CertFacts, Zenon DEF Maybe
  <2>4. ASSUME NEW s \in DomainSets, served'[s] # NoCert
        PROVE  mem'[s] # NoCert /\ served'[s] =< mem'[s] /\ served'[s] = mem'[s]
    <3>1. served'[s] = mem'[s] /\ mem'[s] \in Int
      BY <2>3, <2>4, Zenon
    <3> QED BY <2>4, <3>1
  <2>5. CacheInv'
    BY <2>4, Zenon DEF CacheInv
  <2>6. TokenInv' /\ SavedInv'
    BY <2>1, Zenon DEF TokenInv, SavedInv, NoOrder
  <2> QED BY <2>2, <2>5, <2>6, Zenon DEF AcmeInv
<1>2. ASSUME NEW s \in DomainSets, Store(s) \/ StoreUnsaved(s) PROVE AcmeInv'
  <2>1. mem' = [mem EXCEPT ![s] = Life] /\ served' = served /\ process' = process /\ process # "down"
        /\ order.step = "store"
    BY <1>0, <1>2 DEF Store, StoreUnsaved, At, TokenInv, NoOrder
  <2>2. mem' \in [DomainSets -> Maybe] /\ mem'[s] = Life
        /\ \A t \in DomainSets : t # s => mem'[t] = mem[t]
    BY <1>a, <2>1, CertFacts DEF Maybe
  <2>3. \A t \in DomainSets : served[t] # NoCert => served[t] \in Int /\ served[t] =< Life
    BY <1>a, CertFacts DEF Maybe, Cert
  <2>4. CASE Store(s)
    <3>1. disk' = mem' /\ order'.step = "refresh"
          /\ order' \in [set : DomainSets \cup {NoCert}, step : Steps, tries : Int]
      BY <2>4, GoType DEF Store, Steps
    <3>2. AcmeTypes'
      BY <1>0, <2>1, <2>2, <3>1 DEF AcmeTypes
    <3>3. CacheInv'
      BY <1>0, <2>1, <2>2, <2>3, <3>1, CertFacts DEF CacheInv
    <3> QED BY <2>1, <3>1, <3>2, <3>3 DEF AcmeInv, TokenInv, SavedInv
  <2>5. CASE StoreUnsaved(s)
    <3>1. disk' = disk /\ order'.step = "none" /\ unsaved' = unsaved \cup {s}
          /\ order' \in [set : DomainSets \cup {NoCert}, step : Steps, tries : Int]
      BY <2>5, AbandonType DEF StoreUnsaved
    <3>2. AcmeTypes'
      BY <1>0, <2>1, <2>2, <3>1 DEF AcmeTypes
    <3>3. CacheInv'
      BY <1>0, <2>1, <2>2, <2>3, <3>1, CertFacts, Zenon DEF CacheInv
    <3>4. SavedInv'
      BY <1>0, <2>2, <3>1, Zenon DEF SavedInv
    <3> QED BY <2>1, <3>1, <3>2, <3>3, <3>4 DEF AcmeInv, TokenInv
  <2> QED BY <1>2, <2>4, <2>5, Zenon
<1>3. ASSUME NEW s \in DomainSets, Refresh(s) PROVE AcmeInv'
  <2>1. served' = Unexpired(mem) /\ UNCHANGED <<process, mem, disk, unsaved>> /\ order'.step = "none"
        /\ order' = NoOrder
        /\ order' \in [set : DomainSets \cup {NoCert}, step : Steps, tries : Int]
    BY <1>3, AbandonType DEF Refresh
  <2>2. AcmeTypes'
    BY <1>0, <1>a, <2>1, UnexpiredCert DEF AcmeTypes
  <2>3. ASSUME NEW t \in DomainSets, served'[t] # NoCert PROVE served'[t] = mem[t] /\ mem[t] \in Int
    <3>1. served'[t] = mem[t]
      BY <1>a, <2>1, <2>3, UnexpiredCert
    <3>2. mem[t] \in Maybe
      BY <1>a
    <3> QED BY <2>3, <3>1, <3>2, CertFacts, Zenon DEF Maybe
  <2>4. ASSUME NEW t \in DomainSets, served'[t] # NoCert
        PROVE  mem'[t] # NoCert /\ served'[t] =< mem'[t] /\ served'[t] = mem'[t]
    <3>1. served'[t] = mem'[t] /\ mem'[t] \in Int
      BY <2>1, <2>3, <2>4, Zenon
    <3> QED BY <2>4, <3>1
  <2>5. CacheInv'
    BY <2>4, Zenon DEF CacheInv
  <2>6. SavedInv'
    BY <1>0, <2>1, Zenon DEF SavedInv
  <2>7. TokenInv'
    BY <2>1, Zenon DEF TokenInv
  <2> QED BY <2>2, <2>5, <2>6, <2>7, Zenon DEF AcmeInv
<1>4. ASSUME NEW s \in DomainSets, Handshake(s) PROVE AcmeInv'
  <2>1. Unexpired(mem)[s] # NoCert /\ served' = [served EXCEPT ![s] = Unexpired(mem)[s]]
        /\ UNCHANGED <<process, mem, disk, order, tokens, unsaved>>
    BY <1>4, Zenon DEF Handshake, FindCert
  <2>2. Unexpired(mem)[s] = mem[s] /\ mem[s] \in Cert
    BY <1>a, <2>1, UnexpiredCert, Zenon DEF Maybe
  <2>3. served' \in [DomainSets -> Maybe] /\ served'[s] = mem[s]
        /\ \A t \in DomainSets : t # s => served'[t] = served[t]
    BY <1>a, <2>1, <2>2, Zenon DEF Maybe
  <2>4. AcmeTypes'
    BY <1>0, <2>1, <2>3, Zenon DEF AcmeTypes
  <2>5. CacheInv'
    <3>1. mem[s] \in Int /\ mem[s] # NoCert
      BY <2>2, CertFacts, Zenon
    <3>2. mem[s] =< mem[s]
      BY <3>1
    <3> QED BY <1>0, <2>1, <2>3, <3>1, <3>2 DEF CacheInv
  <2> QED BY <1>0, <2>1, <2>4, <2>5 DEF AcmeInv, TokenInv, SavedInv
<1>5. CASE Crash
  <2>1. process' = "down" /\ mem' = [s \in DomainSets |-> NoCert] /\ served' = mem' /\ disk' = disk
        /\ order' = NoOrder
        /\ order' \in [set : DomainSets \cup {NoCert}, step : Steps, tries : Int]
    BY <1>5, AbandonType DEF Crash
  <2>2. AcmeTypes'
    BY <1>a, <2>1, Zenon DEF AcmeTypes, Maybe
  <2> QED BY <2>1, <2>2 DEF AcmeInv, TokenInv, SavedInv, CacheInv, NoOrder
<1>6. CASE AcmeTick \/ QuietTick
  <2>1. mem' = Older(mem) /\ disk' = Older(disk) /\ served' = Older(served)
        /\ UNCHANGED <<process, order, tokens, unsaved>>
    BY <1>6, Zenon DEF AcmeTick, QuietTick
  <2>2. AcmeTypes'
    BY <1>0, <1>a, <2>1, OlderCert, Zenon DEF AcmeTypes
  <2>3. ASSUME NEW s \in DomainSets, mem'[s] # NoCert, s \notin unsaved PROVE disk'[s] = mem'[s]
    <3>1. mem[s] # NoCert /\ disk[s] = mem[s]
      BY <1>0, <1>a, <2>1, <2>3, OlderCert, Zenon DEF SavedInv
    <3> QED BY <1>a, <2>1, <3>1, OlderCert
  <2>4. ASSUME NEW s \in DomainSets, served'[s] # NoCert
        PROVE  /\ mem'[s] # NoCert /\ served'[s] =< mem'[s]
               /\ s \in unsaved \/ order.step = "refresh" \/ served'[s] = mem'[s]
    <3>1. served[s] # NoCert
      BY <1>a, <2>1, <2>4, OlderCert, ZenonT(40)
    <3>2. /\ mem[s] # NoCert /\ served[s] =< mem[s]
          /\ s \in unsaved \/ order.step = "refresh" \/ served[s] = mem[s]
      BY <1>0, <3>1 DEF CacheInv
    <3>3. served[s] \in Cert /\ mem[s] \in Cert
      BY <1>a, <3>1, <3>2, Zenon DEF Maybe
    <3>4. /\ mem'[s] # NoCert
          /\ mem'[s] = IF mem[s] = -1 THEN -1 ELSE mem[s] - 1
          /\ served'[s] = IF served[s] = -1 THEN -1 ELSE served[s] - 1
      BY <1>a, <2>1, <3>1, <3>2, OlderCert
    <3> QED BY <3>2, <3>3, <3>4, CertFacts DEF Cert
  <2> QED BY <1>0, <2>1, <2>2, <2>3, <2>4, Zenon DEF AcmeInv, TokenInv, SavedInv, CacheInv
<1> QED BY <1>1, <1>2, <1>3, <1>4, <1>5, <1>6

LEMMA AcmeStepInv == AcmeInv /\ [AcmeNext]_acmeVars => AcmeInv'
<1>1. ASSUME AcmeInv, AcmeNext PROVE AcmeInv'
  BY <1>1, OrderStepInv, CertStepInv DEF AcmeNext, OrderStep, PassStep
<1>2. ASSUME AcmeInv, UNCHANGED acmeVars PROVE AcmeInv'
  BY <1>2 DEF acmeVars, AcmeInv, AcmeTypes, TokenInv, SavedInv, CacheInv
<1> QED BY <1>1, <1>2

(***************************************************************************)
(* Through any number of crashes and failed saves: a challenge the         *)
(* authority may ask about can be answered, what is served is on disk or   *)
(* its save failed, and an expired certificate is served only where the    *)
(* storage has no better one that was saved.                               *)
(***************************************************************************)
THEOREM CertificatesSafe == AcmeSpec => []AcmeSafe
BY AcmeInitInv, AcmeStepInv, AcmeInvSafe, PTL DEF AcmeSpec

-----------------------------------------------------------------------------
(* UDP sessions.  A socket is in one session at most, and whoever holds it *)
(* otherwise, its listener or the first datagram, is of the same client.   *)

Ears == {"check", "wait", "remove"}

UdpTypes ==
  /\ session \in [Clients -> [sock : Socks \cup {NoSock}, idle : Nat]]
  /\ task \in [Tasks -> [at : {"idle", "bind", "first", "send"}, client : Clients \cup {NoSock},
                         sock : Socks \cup {NoSock}]]
  /\ listener \in [Socks -> [at : Ears \cup {"none"}, client : Clients \cup {NoSock}]]

OneSession ==
  \A b, c \in Clients : HasSession(b) /\ session[b].sock = session[c].sock => b = c

ListenerInv ==
  \A k \in Socks : listener[k].at # "none" =>
    /\ listener[k].client \in Clients
    /\ \A c \in Clients : session[c].sock = k => listener[k].client = c

TaskInv ==
  \A t \in Tasks :
    /\ task[t].at \in {"bind", "first"} => task[t].client \in Clients
    /\ task[t].at = "first" =>
         /\ task[t].sock \in Socks /\ listener[task[t].sock].at = "none"
         /\ \A c \in Clients : session[c].sock = task[t].sock => task[t].client = c
         /\ \A u \in Tasks : task[u].at = "first" /\ task[u].sock = task[t].sock => u = t

UdpInv == UdpTypes /\ OneSession /\ ListenerInv /\ TaskInv /\ SessionsAreHeard

LEMMA UdpInitInv == UdpInit => UdpInv
BY UdpConfig DEF UdpInit, UdpInv, UdpTypes, Ears, OneSession, ListenerInv, TaskInv, SessionsAreHeard,
   HasSession, NoSession, Resting

\* Sessions that keep their sockets, or lose them, disturb nobody.
LEMMA FewerSessions ==
  ASSUME UdpInv, UNCHANGED <<task, listener, deaf>>,
         session' \in [Clients -> [sock : Socks \cup {NoSock}, idle : Nat]],
         \A c \in Clients : session'[c].sock \in {session[c].sock, NoSock}
  PROVE  UdpInv'
<1> USE DEF UdpInv
<1>1. UdpTypes'
  BY DEF UdpTypes
<1>2. OneSession'
  BY DEF OneSession, HasSession
<1>3. ListenerInv'
  BY UdpConfig, Zenon DEF ListenerInv
<1>4. TaskInv'
  BY UdpConfig DEF TaskInv
<1>5. SessionsAreHeard'
  BY DEF SessionsAreHeard, HasSession
<1> QED BY <1>1, <1>2, <1>3, <1>4, <1>5

\* A listener that goes on with its client, and does not end, still hears.
LEMMA ListenerKeeps ==
  ASSUME UdpInv, NEW k \in Socks, NEW at \in Ears, listener[k].at # "none",
         listener' = [listener EXCEPT ![k].at = at],
         UNCHANGED <<task, deaf>>, session' \in [Clients -> [sock : Socks \cup {NoSock}, idle : Nat]],
         \A c \in Clients : session'[c].sock = session[c].sock
  PROVE  UdpInv'
<1> USE DEF UdpInv
<1>1. listener' \in [Socks -> [at : Ears \cup {"none"}, client : Clients \cup {NoSock}]]
      /\ listener'[k].at = at /\ listener'[k].client = listener[k].client
      /\ \A j \in Socks : j # k => listener'[j] = listener[j]
  BY Zenon DEF UdpTypes
<1>2. at # "none"
  BY DEF Ears
<1>3. UdpTypes' /\ OneSession'
  BY <1>1 DEF UdpTypes, OneSession, HasSession
<1>4. ListenerInv'
  BY <1>1, <1>2 DEF ListenerInv
<1>5. TaskInv'
  BY <1>1 DEF TaskInv
<1>6. ASSUME NEW c \in Clients, HasSession(c)'
      PROVE  \/ listener'[session'[c].sock] \in [at : {"check", "wait", "remove"}, client : {c}]
             \/ \E t \in Tasks : task'[t].at = "first" /\ task'[t].sock = session'[c].sock
             \/ session'[c].sock \in deaf'
  <2>1. HasSession(c) /\ session'[c].sock = session[c].sock /\ session[c].sock \in Socks
    BY <1>6 DEF HasSession, UdpTypes
  <2>2. CASE session[c].sock = k
    <3>1. listener'[k] \in [at : {"check", "wait", "remove"}, client : {c}]
      BY <1>1, <2>2, ZenonT(40) DEF ListenerInv, Ears
    <3> QED BY <2>1, <2>2, <3>1
  <2>3. CASE session[c].sock # k
    BY <1>1, <2>1, <2>3 DEF SessionsAreHeard
  <2> QED BY <2>2, <2>3
<1> QED BY <1>3, <1>4, <1>5, <1>6 DEF SessionsAreHeard

\* A task that neither binds nor forwards a first datagram matters to nobody.
LEMMA TaskKeeps ==
  ASSUME UdpInv, NEW t \in Tasks, task[t].at # "first",
         NEW new \in [at : {"idle", "bind", "send"}, client : Clients \cup {NoSock},
                      sock : Socks \cup {NoSock}],
         new.at = "bind" => new.client \in Clients,
         task' = [task EXCEPT ![t] = new], UNCHANGED <<listener, deaf>>,
         session' \in [Clients -> [sock : Socks \cup {NoSock}, idle : Nat]],
         \A c \in Clients : session'[c].sock = session[c].sock
  PROVE  UdpInv'
<1> USE DEF UdpInv
<1>1. task' \in [Tasks -> [at : {"idle", "bind", "first", "send"}, client : Clients \cup {NoSock},
                         sock : Socks \cup {NoSock}]]
      /\ task'[t] = new /\ new.at # "first" /\ \A u \in Tasks : u # t => task'[u] = task[u]
  BY Zenon DEF UdpTypes
<1>2. UdpTypes' /\ OneSession' /\ ListenerInv'
  BY <1>1 DEF UdpTypes, OneSession, HasSession, ListenerInv
<1>3. TaskInv'
  BY <1>1 DEF TaskInv
<1>4. SessionsAreHeard'
  BY <1>1 DEF SessionsAreHeard, HasSession
<1> QED BY <1>2, <1>3, <1>4

\* A new session has a socket nobody else holds.
LEMMA BindKeeps ==
  ASSUME UdpInv, NEW t \in Tasks, task[t].at = "bind", NEW k \in Socks, Free(k),
         task' = [task EXCEPT ![t].at = "first", ![t].sock = k],
         session' = [session EXCEPT ![task[t].client] = [sock |-> k, idle |-> 0]],
         UNCHANGED <<listener, deaf>>
  PROVE  UdpInv'
<1> USE DEF UdpInv
<1> DEFINE b == task[t].client
<1>0. b \in Clients
  BY DEF TaskInv
<1>1. task' \in [Tasks -> [at : {"idle", "bind", "first", "send"}, client : Clients \cup {NoSock},
                         sock : Socks \cup {NoSock}]]
      /\ task'[t].at = "first" /\ task'[t].sock = k /\ task'[t].client = b
      /\ \A u \in Tasks : u # t => task'[u] = task[u]
  BY Zenon DEF UdpTypes
<1>2. session' \in [Clients -> [sock : Socks \cup {NoSock}, idle : Nat]]
      /\ session'[b].sock = k /\ \A c \in Clients : c # b => session'[c] = session[c]
  BY <1>0 DEF UdpTypes
<1>3. listener[k].at = "none" /\ (\A c \in Clients : session[c].sock # k)
      /\ \A u \in Tasks : task[u].sock # k
  BY DEF Free
<1>4. UdpTypes'
  BY <1>1, <1>2 DEF UdpTypes
<1>5. OneSession'
  BY <1>0, <1>2, <1>3 DEF OneSession, HasSession
<1>6. ListenerInv'
  BY <1>0, <1>2, <1>3 DEF ListenerInv
<1>7. TaskInv'
  <2>1. ASSUME NEW u \in Tasks, u # t, task[u].at = "first"
        PROVE  /\ task[u].sock \in Socks /\ task[u].sock # k /\ listener[task[u].sock].at = "none"
               /\ \A c \in Clients : session'[c].sock = task[u].sock => task[u].client = c
    BY <1>2, <1>3, <2>1 DEF TaskInv
  <2> QED BY <1>0, <1>1, <1>2, <1>3, <2>1 DEF TaskInv
<1>8. ASSUME NEW c \in Clients, HasSession(c)'
      PROVE  \/ listener'[session'[c].sock] \in [at : {"check", "wait", "remove"}, client : {c}]
             \/ \E u \in Tasks : task'[u].at = "first" /\ task'[u].sock = session'[c].sock
             \/ session'[c].sock \in deaf'
  <2>1. CASE c = b
    BY <1>1, <1>2, <2>1
  <2>2. CASE c # b
    BY <1>1, <1>2, <1>8, <2>2, Zenon DEF SessionsAreHeard, HasSession
  <2> QED BY <2>1, <2>2, ZenonT(40)
<1> QED BY <1>4, <1>5, <1>6, <1>7, <1>8, Zenon DEF SessionsAreHeard

\* The first datagram has been forwarded: its listener runs, or is known not to.
LEMMA SendFirstKeeps ==
  ASSUME UdpInv, NEW t \in Tasks, SendFirst(t) PROVE UdpInv'
<1> USE DEF UdpInv
<1> DEFINE k == task[t].sock
           b == task[t].client
<1>0. b \in Clients /\ k \in Socks /\ listener[k].at = "none"
      /\ (\A c \in Clients : session[c].sock = k => b = c)
      /\ \A u \in Tasks : task[u].at = "first" /\ task[u].sock = k => u = t
  BY Zenon DEF SendFirst, TaskInv
<1>1. task' \in [Tasks -> [at : {"idle", "bind", "first", "send"}, client : Clients \cup {NoSock},
                         sock : Socks \cup {NoSock}]]
      /\ task'[t].at = "idle" /\ session' = session
      /\ \A u \in Tasks : u # t => task'[u] = task[u]
  BY DEF SendFirst, UdpTypes, Resting
<1>2. CASE listener' = [listener EXCEPT ![k] = [at |-> "check", client |-> b]] /\ deaf' = deaf \ {k}
  <2>1. listener' \in [Socks -> [at : Ears \cup {"none"}, client : Clients \cup {NoSock}]]
        /\ listener'[k] = [at |-> "check", client |-> b]
        /\ \A j \in Socks : j # k => listener'[j] = listener[j]
    BY <1>0, <1>2, Zenon DEF UdpTypes, Ears
  <2>2. UdpTypes' /\ OneSession' /\ ListenerInv'
    <3>1. UdpTypes' /\ OneSession'
      BY <1>1, <2>1, Zenon DEF UdpTypes, OneSession, HasSession
    <3>2. ASSUME NEW j \in Socks, listener'[j].at # "none"
          PROVE  /\ listener'[j].client \in Clients
                 /\ \A c \in Clients : session'[c].sock = j => listener'[j].client = c
      <4>1. CASE j = k
        BY <1>0, <1>1, <2>1, <4>1
      <4>2. CASE j # k
        BY <1>1, <2>1, <3>2, <4>2, ZenonT(40) DEF ListenerInv
      <4> QED BY <4>1, <4>2, Zenon
    <3> QED BY <3>1, <3>2, Zenon DEF ListenerInv
  <2>3. TaskInv'
    <3>1. ASSUME NEW u \in Tasks, task'[u].at \in {"bind", "first"} PROVE u # t /\ task'[u] = task[u]
      BY <1>1, <3>1
    <3>2. ASSUME NEW u \in Tasks, task'[u].at = "first" PROVE task[u].sock \in Socks /\ task[u].sock # k
      BY <1>0, <3>1, <3>2, Zenon DEF TaskInv
    <3>3. ASSUME NEW u \in Tasks, task'[u].at = "first"
          PROVE  /\ task'[u].sock \in Socks /\ listener'[task'[u].sock].at = "none"
                 /\ \A c \in Clients : session'[c].sock = task'[u].sock => task'[u].client = c
                 /\ \A v \in Tasks : task'[v].at = "first" /\ task'[v].sock = task'[u].sock => v = u
      <4>1. task'[u] = task[u] /\ task[u].sock \in Socks /\ task[u].sock # k
        BY <3>1, <3>2, <3>3
      <4>2. listener'[task[u].sock].at = "none"
        BY <2>1, <3>3, <4>1, Zenon DEF TaskInv
      <4>3. \A c \in Clients : session'[c].sock = task[u].sock => task[u].client = c
        BY <1>1, <3>3, <4>1, Zenon DEF TaskInv
      <4>4. ASSUME NEW v \in Tasks, task'[v].at = "first", task'[v].sock = task[u].sock PROVE v = u
        <5>1. task'[v] = task[v]
          BY <3>1, <4>4
        <5>2. task[u].at = "first"
          BY <3>3, <4>1, Zenon
        <5>3. \A w \in Tasks : task[w].at = "first" /\ task[w].sock = task[u].sock => w = u
          BY <5>2, Zenon DEF TaskInv
        <5> QED BY <4>4, <5>1, <5>3, Zenon
      <4> QED BY <4>1, <4>2, <4>3, <4>4, Zenon
    <3> QED BY <3>1, <3>3 DEF TaskInv
  <2>4. ASSUME NEW c \in Clients, HasSession(c)
        PROVE  \/ listener'[session[c].sock] \in [at : {"check", "wait", "remove"}, client : {c}]
               \/ \E u \in Tasks : task'[u].at = "first" /\ task'[u].sock = session[c].sock
               \/ session[c].sock \in deaf'
    <3>1. CASE session[c].sock = k
      <4>1. b = c /\ listener'[k] = [at |-> "check", client |-> c]
        BY <1>0, <2>1, <3>1
      <4>2. [at |-> "check", client |-> c] \in [at : {"check", "wait", "remove"}, client : {c}]
        OBVIOUS
      <4> QED BY <3>1, <4>1, <4>2, Zenon
    <3>2. CASE session[c].sock # k
      <4>1. session[c].sock \in Socks
        BY <2>4 DEF HasSession, UdpTypes
      <4>2. listener'[session[c].sock] = listener[session[c].sock]
        BY <2>1, <3>2, <4>1, Zenon
      <4>3. ASSUME session[c].sock \in deaf PROVE session[c].sock \in deaf'
        BY <1>2, <3>2, <4>3
      <4>4. ASSUME NEW u \in Tasks, task[u].at = "first" /\ task[u].sock = session[c].sock
            PROVE  task'[u].at = "first" /\ task'[u].sock = session[c].sock
        BY <1>1, <3>2, <4>4, Zenon
      <4>5. \/ listener[session[c].sock] \in [at : {"check", "wait", "remove"}, client : {c}]
            \/ \E u \in Tasks : task[u].at = "first" /\ task[u].sock = session[c].sock
            \/ session[c].sock \in deaf
        BY <2>4, Zenon DEF SessionsAreHeard
      <4> QED BY <4>2, <4>3, <4>4, <4>5, Zenon
    <3> QED BY <3>1, <3>2, Zenon
  <2> QED BY <1>1, <2>2, <2>3, <2>4, ZenonT(40) DEF SessionsAreHeard, HasSession
<1>3. CASE deaf' = deaf \cup {k} /\ UNCHANGED listener
  <2>1. UdpTypes' /\ OneSession' /\ ListenerInv'
    BY <1>1, <1>3, ZenonT(40) DEF UdpTypes, OneSession, HasSession, ListenerInv
  <2>2. TaskInv'
    <3>1. \A u \in Tasks : task'[u].at \in {"bind", "first"} => task'[u] = task[u]
      BY <1>1
    <3> QED BY <1>1, <1>3, <3>1, SMT DEF TaskInv
  <2>3. SessionsAreHeard'
    BY <1>1, <1>3 DEF SessionsAreHeard, HasSession
  <2> QED BY <2>1, <2>2, <2>3, Zenon
<1> QED BY <1>2, <1>3, Zenon DEF SendFirst

\* A listener that ends takes the only session of its socket with it.
LEMMA RemoveKeeps ==
  ASSUME UdpInv, NEW k \in Socks, RemoveSession(k) PROVE UdpInv'
<1> USE DEF UdpInv
<1> DEFINE b == listener[k].client
<1>0. b \in Clients /\ \A c \in Clients : session[c].sock = k => b = c
  BY Zenon DEF RemoveSession, ListenerInv
<1>1. session' \in [Clients -> [sock : Socks \cup {NoSock}, idle : Nat]]
      /\ session'[b].sock = NoSock /\ \A c \in Clients : c # b => session'[c] = session[c]
  BY <1>0, Zenon DEF RemoveSession, NoSession, UdpTypes
<1>2. listener' \in [Socks -> [at : Ears \cup {"none"}, client : Clients \cup {NoSock}]]
      /\ listener'[k].at = "none" /\ \A j \in Socks : j # k => listener'[j] = listener[j]
  BY Zenon DEF RemoveSession, UdpTypes
<1>3. task' = task /\ deaf' = deaf
  BY Zenon DEF RemoveSession
<1>4. UdpTypes' /\ OneSession'
  BY <1>0, <1>1, <1>2, <1>3 DEF UdpTypes, OneSession, HasSession
<1>5. ListenerInv'
  <2>1. ASSUME NEW j \in Socks, listener'[j].at # "none" PROVE j # k /\ listener'[j] = listener[j]
    BY <1>2, <2>1
  <2>2. ASSUME NEW j \in Socks, NEW c \in Clients, session'[c].sock = j PROVE session[c].sock = j
    BY <1>1, <2>2, UdpConfig
  <2> SUFFICES ASSUME NEW j \in Socks, listener'[j].at # "none"
               PROVE  /\ listener'[j].client \in Clients
                      /\ \A c \in Clients : session'[c].sock = j => listener'[j].client = c
    BY Zenon DEF ListenerInv
  <2>3. listener'[j] = listener[j] /\ listener[j].at # "none"
    BY <2>1
  <2>4. listener[j].client \in Clients /\ \A c \in Clients : session[c].sock = j => listener[j].client = c
    BY <2>3, Zenon DEF ListenerInv
  <2> QED BY <2>2, <2>3, <2>4
<1>6. TaskInv'
  <2>1. k # NoSock /\ listener[k].at # "none"
    BY UdpConfig DEF RemoveSession
  <2>2. ASSUME NEW u \in Tasks, task[u].at = "first"
        PROVE  /\ task[u].sock \in Socks /\ listener'[task[u].sock].at = "none"
               /\ \A c \in Clients : session'[c].sock = task[u].sock => task[u].client = c
    <3>1. task[u].sock \in Socks /\ task[u].sock # NoSock /\ listener[task[u].sock].at = "none"
      BY <2>2, UdpConfig DEF TaskInv
    <3>2. listener'[task[u].sock].at = "none"
      BY <1>2, <2>1, <3>1, Zenon
    <3>3. ASSUME NEW c \in Clients, session'[c].sock = task[u].sock PROVE task[u].client = c
      <4>1. session[c].sock = task[u].sock
        BY <1>1, <3>1, <3>3, Zenon
      <4> QED BY <2>2, <4>1, Zenon DEF TaskInv
    <3> QED BY <3>1, <3>2, <3>3, Zenon
  <2> QED BY <1>3, <2>2, Zenon DEF TaskInv
<1>7. ASSUME NEW c \in Clients, HasSession(c)'
      PROVE  \/ listener'[session'[c].sock] \in [at : {"check", "wait", "remove"}, client : {c}]
             \/ \E u \in Tasks : task'[u].at = "first" /\ task'[u].sock = session'[c].sock
             \/ session'[c].sock \in deaf'
  <2>1. c # b /\ session'[c] = session[c] /\ HasSession(c)
    BY <1>0, <1>1, <1>7, Zenon DEF HasSession
  <2>2. session[c].sock \in Socks /\ session[c].sock # k
    BY <1>0, <2>1 DEF HasSession, UdpTypes
  <2> QED BY <1>2, <1>3, <2>1, <2>2, ZenonT(40) DEF SessionsAreHeard
<1> QED BY <1>4, <1>5, <1>6, <1>7, ZenonT(40) DEF SessionsAreHeard

LEMMA UdpStepInv == UdpInv /\ [UdpNext]_udpVars => UdpInv'
<1> SUFFICES ASSUME UdpInv, [UdpNext]_udpVars PROVE UdpInv'
  OBVIOUS
<1>0. UdpTypes
  BY DEF UdpInv
<1>1. ASSUME NEW t \in Tasks, NEW c \in Clients, Receive(t, c) PROVE UdpInv'
  <2>1. CASE HasSession(c)
    <3>1. session' \in [Clients -> [sock : Socks \cup {NoSock}, idle : Nat]]
          /\ \A d \in Clients : session'[d].sock = session[d].sock
      <4>1. session' = [session EXCEPT ![c] = [session[c] EXCEPT !.idle = 0]]
        BY <1>1, <2>1 DEF Receive
      <4> QED BY <1>0, <4>1 DEF UdpTypes
    <3>2. task' = [task EXCEPT ![t] = [at |-> "send", client |-> c, sock |-> session[c].sock]]
          /\ task[t].at = "idle" /\ UNCHANGED <<listener, deaf>>
      BY <1>1, <2>1, Zenon DEF Receive, Resting
    <3>3. [at |-> "send", client |-> c, sock |-> session[c].sock]
            \in [at : {"idle", "bind", "send"}, client : Clients \cup {NoSock},
                 sock : Socks \cup {NoSock}]
      BY <1>0 DEF UdpTypes
    <3> QED BY <3>1, <3>2, <3>3, TaskKeeps, Zenon
  <2>2. CASE ~HasSession(c)
    <3>1. task' = [task EXCEPT ![t] = [at |-> "bind", client |-> c, sock |-> NoSock]]
          /\ task[t].at = "idle" /\ UNCHANGED <<session, listener, deaf>>
      BY <1>1, <2>2, Zenon DEF Receive, Resting
    <3> QED BY <1>0, <3>1, TaskKeeps, Zenon DEF UdpTypes
  <2> QED BY <2>1, <2>2
<1>2. ASSUME NEW t \in Tasks, Bind(t) PROVE UdpInv'
  <2>1. CASE task' = [task EXCEPT ![t] = Resting] /\ UNCHANGED session
    BY <1>0, <1>2, <2>1, TaskKeeps, Zenon DEF Bind, Resting, UdpTypes
  <2> QED BY <1>2, <2>1, BindKeeps, Zenon DEF Bind
<1>3. ASSUME NEW t \in Tasks, Send(t) PROVE UdpInv'
  BY <1>0, <1>3, TaskKeeps, Zenon DEF Send, Resting, UdpTypes
<1>4. ASSUME NEW t \in Tasks, SendFirst(t) PROVE UdpInv'
  BY <1>4, SendFirstKeeps
<1>5. ASSUME NEW k \in Socks, Look(k) \/ ReceiveError(k) \/ ReceiveTimeout(k) PROVE UdpInv'
  <2>1. PICK at \in Ears : listener' = [listener EXCEPT ![k].at = at]
    BY <1>5 DEF Look, ReceiveError, ReceiveTimeout, Ears
  <2>2. listener[k].at # "none" /\ UNCHANGED <<session, task, deaf>>
    BY <1>5 DEF Look, ReceiveError, ReceiveTimeout
  <2> QED BY <1>0, <2>1, <2>2, ListenerKeeps, Zenon DEF UdpTypes
<1>6. ASSUME NEW k \in Socks, BackendAnswer(k) PROVE UdpInv'
  <2>1. session' \in [Clients -> [sock : Socks \cup {NoSock}, idle : Nat]]
        /\ \A c \in Clients : session'[c].sock = session[c].sock
    <3>1. CASE HasSession(listener[k].client)
      <4>1. session' = [session EXCEPT ![listener[k].client].idle = 0]
        BY <1>6, <3>1 DEF BackendAnswer
      <4>2. listener[k].client \in Clients
        BY <1>6 DEF BackendAnswer, UdpInv, ListenerInv
      <4> QED BY <1>0, <4>1, <4>2 DEF UdpTypes
    <3>2. CASE ~HasSession(listener[k].client)
      BY <1>0, <1>6, <3>2 DEF BackendAnswer, UdpTypes
    <3> QED BY <3>1, <3>2
  <2>2. listener' = [listener EXCEPT ![k].at = "check"] /\ listener[k].at = "wait"
        /\ UNCHANGED <<task, deaf>>
    BY <1>6, Zenon DEF BackendAnswer
  <2> QED BY <2>1, <2>2, ListenerKeeps, Zenon DEF Ears
<1>7. ASSUME NEW k \in Socks, RemoveSession(k) PROVE UdpInv'
  BY <1>7, RemoveKeeps
<1>8. CASE Collect \/ UNCHANGED udpVars
  BY <1>0, <1>8, FewerSessions, Zenon DEF Collect, udpVars, UdpTypes
<1>9. CASE SweepOut
  BY <1>0, <1>9, FewerSessions DEF SweepOut, NoSession, UdpTypes
<1>10. CASE UdpTick
  <2>1. session' \in [Clients -> [sock : Socks \cup {NoSock}, idle : Nat]]
        /\ \A c \in Clients : session'[c].sock = session[c].sock
    BY <1>0, <1>10 DEF UdpTick, UdpTypes
  <2> QED BY <1>10, <2>1, FewerSessions DEF UdpTick
<1> QED BY <1>1, <1>2, <1>3, <1>4, <1>5, <1>6, <1>7, <1>8, <1>9, <1>10 DEF UdpNext

(***************************************************************************)
(* While a UDP session is in the map the answers of its backend have a way *)
(* back: its listener runs for its client, or its first datagram is still  *)
(* being forwarded, or starting the listener failed.  It holds for any     *)
(* number of clients, datagrams at the same time and sockets.              *)
(***************************************************************************)
THEOREM AnswersHaveAWayBack == UdpSpec => []SessionsAreHeard
<1>1. UdpInv => SessionsAreHeard
  BY DEF UdpInv
<1> QED BY <1>1, UdpInitInv, UdpStepInv, PTL DEF UdpSpec
-----------------------------------------------------------------------------
(* Tunnels.  Copies run on an open tunnel only, and a direction whose end  *)
(* has been passed on moves no more.                                       *)

Copies == {"off", "run", "ended", "failed", "cut"}

TunTypes ==
  /\ spoken \in [Ways -> Nat] /\ taken \in [Ways -> Nat]
  /\ given \in [Ways -> Nat] /\ lost \in [Ways -> Nat]
  /\ ended \in [Ways -> BOOLEAN] /\ eof \in [Ways -> BOOLEAN]
  /\ copy \in [Ways -> Copies] /\ kind \in {"tcp", "ws"}

\* Before the tunnel is open no copy has been started.
ShutInv == phase \notin {"open", "gone"} => \A d \in Ways : copy[d] = "off" /\ ~eof[d]

RunInv == \A d \in Ways : copy[d] = "run" => phase = "open" /\ ~eof[d]

TunInv == TunTypes /\ ShutInv /\ RunInv /\ EofMeansAll

LEMMA TunInitInv == TunInit => TunInv
BY DEF TunInit, TunInv, TunTypes, Copies, ShutInv, RunInv, EofMeansAll, Ways

\* Hanging up before the tunnel is open leaves nothing half passed on.
LEMMA HangUpKeeps ==
  ASSUME TunInv, phase \notin {"open", "gone"}, HangUp,
         UNCHANGED <<kind, spoken, ended, given>>, taken' \in [Ways -> Nat], UNCHANGED lost
  PROVE  TunInv'
<1>1. copy' = copy /\ \A d \in Ways : copy[d] = "off"
  BY DEF HangUp, TunInv, TunTypes, ShutInv
<1>2. eof' \in [Ways -> BOOLEAN] /\ phase' = "gone"
  BY DEF HangUp
<1>3. TunTypes'
  BY <1>1, <1>2 DEF TunInv, TunTypes
<1> QED BY <1>1, <1>2, <1>3 DEF TunInv, ShutInv, RunInv, EofMeansAll

\* A copy that is over has passed on all there was, or failed.
LEMMA OverKeeps ==
  ASSUME TunInv, NEW d \in Ways, NEW how \in {"ended", "failed"}, copy[d] = "run", Over(d, how),
         how = "ended" => ended[d] /\ given[d] + lost[d] = spoken[d],
         UNCHANGED <<kind, spoken, ended, taken, given, lost>>
  PROVE  TunInv'
<1>0. Back(d) \in Ways /\ Back(d) # d /\ Back(Back(d)) = d
      /\ \A e \in Ways : e = d \/ e = Back(d)
  BY DEF Back, Ways
<1>1. CASE kind = "tcp"
  <2>1. copy' = [copy EXCEPT ![d] = how] /\ eof' = [eof EXCEPT ![d] = TRUE]
        /\ phase' = IF copy[Back(d)] = "run" THEN "open" ELSE "gone"
    BY <1>1 DEF Over
  <2>2. copy'[d] = how /\ copy'[Back(d)] = copy[Back(d)] /\ eof'[Back(d)] = eof[Back(d)]
    BY <1>0, <2>1, Zenon DEF TunInv, TunTypes
  <2>3. TunTypes'
    BY <2>1, Zenon DEF TunInv, TunTypes, Copies
  <2>4. ShutInv' /\ RunInv'
    BY <1>0, <2>1, <2>2, Zenon DEF TunInv, ShutInv, RunInv
  <2>5. EofMeansAll'
    BY <1>0, <1>1, <2>2, Zenon DEF TunInv, EofMeansAll
  <2> QED BY <2>3, <2>4, <2>5 DEF TunInv
<1>2. CASE kind # "tcp"
  <2>1. copy' = [e \in Ways |-> IF e = d THEN how ELSE "cut"]
        /\ eof' = [e \in Ways |-> TRUE] /\ phase' = "gone"
    BY <1>2 DEF Over
  <2>2. copy'[d] = how /\ copy'[Back(d)] = "cut"
    BY <1>0, <2>1
  <2>3. TunTypes'
    BY <2>1 DEF TunInv, TunTypes, Copies
  <2>4. ShutInv' /\ RunInv'
    BY <1>0, <2>1, <2>2, Zenon DEF ShutInv, RunInv
  <2>5. EofMeansAll'
    BY <1>0, <1>2, <2>2 DEF TunInv, TunTypes, EofMeansAll
  <2> QED BY <2>3, <2>4, <2>5 DEF TunInv
<1> QED BY <1>1, <1>2

LEMMA TunStepInv == TunInv /\ [TunNext]_tunVars => TunInv'
<1> SUFFICES ASSUME TunInv, [TunNext]_tunVars PROVE TunInv'
  OBVIOUS
<1>0. TunTypes /\ ShutInv /\ RunInv /\ EofMeansAll
  BY Zenon DEF TunInv
\* While the tunnel is being set up nothing that EofMeansAll reads changes.
<1>1. ASSUME phase \notin {"open", "gone"}, phase' \notin {"open", "gone"},
             taken' \in [Ways -> Nat], lost' \in [Ways -> Nat],
             UNCHANGED <<kind, spoken, ended, given, copy, eof>>
      PROVE  TunInv'
  <2>1. TunTypes'
    BY <1>0, <1>1, Zenon DEF TunTypes
  <2> QED BY <1>0, <1>1, <2>1, Zenon DEF TunInv, ShutInv, RunInv, EofMeansAll
<1>2. ASSUME phase \notin {"open", "gone"}, phase' = "open", copy' = [d \in Ways |-> "run"],
             UNCHANGED <<kind, spoken, ended, taken, given, lost, eof>>
      PROVE  TunInv'
  <2>1. TunTypes'
    BY <1>0, <1>2 DEF TunTypes, Copies
  <2> QED BY <1>0, <1>2, <2>1 DEF TunInv, ShutInv, RunInv, EofMeansAll
<1>3. CASE Peek \/ PeekTimeout \/ PeekAgain
  BY <1>0, <1>1, <1>3, Zenon DEF Peek, PeekTimeout, PeekAgain, setup, wire, TunTypes
<1>4. CASE Routed
  <2>1. CASE HangUp
    BY <1>0, <1>4, <2>1, HangUpKeeps DEF Routed, setup, wire, TunTypes
  <2>2. CASE phase' = "connect" /\ UNCHANGED <<copy, eof>>
    BY <1>0, <1>1, <1>4, <2>2 DEF Routed, setup, wire, TunTypes
  <2> QED BY <1>4, <2>1, <2>2 DEF Routed
<1>5. CASE ConnectTcp
  <2>1. CASE HangUp
    BY <1>0, <1>5, <2>1, HangUpKeeps DEF ConnectTcp, setup, wire, TunTypes
  <2>2. CASE phase' = "open" /\ copy' = [d \in Ways |-> "run"] /\ UNCHANGED eof
    BY <1>2, <1>5, <2>2 DEF ConnectTcp, setup, wire
  <2> QED BY <1>5, <2>1, <2>2 DEF ConnectTcp
<1>6. CASE ConnectWs
  <2>1. CASE HangUp
    BY <1>0, <1>6, <2>1, HangUpKeeps DEF ConnectWs, setup, wire, TunTypes
  <2>2. CASE phase' = "shake" /\ UNCHANGED <<copy, eof>>
    BY <1>0, <1>1, <1>6, <2>2 DEF ConnectWs, setup, wire, TunTypes
  <2> QED BY <1>6, <2>1, <2>2 DEF ConnectWs
<1>7. CASE Shake
  <2>1. PICK n \in 1 .. BufUnits :
          /\ taken' = [taken EXCEPT !["down"] = @ + n]
          /\ \/ HangUp /\ UNCHANGED lost
             \/ /\ phase' = "upgrade" /\ lost' = [lost EXCEPT !["down"] = taken'["down"]]
                /\ UNCHANGED <<copy, eof>>
             \/ UNCHANGED <<phase, lost, copy, eof>>
    BY <1>7, Zenon DEF Shake
  <2>2. taken' \in [Ways -> Nat] /\ "down" \in Ways /\ taken'["down"] \in Nat
    <3>1. n \in Nat
      BY TunnelConfig
    <3> QED BY <1>0, <2>1, <3>1 DEF TunTypes, Ways
  <2>3. UNCHANGED <<kind, spoken, ended, given>> /\ phase = "shake"
    BY <1>7 DEF Shake, setup, wire
  <2>4. CASE HangUp /\ UNCHANGED lost
    BY <2>2, <2>3, <2>4, HangUpKeeps
  <2>5. CASE phase' = "upgrade" /\ lost' = [lost EXCEPT !["down"] = taken'["down"]]
             /\ UNCHANGED <<copy, eof>>
    <3>1. lost' \in [Ways -> Nat]
      BY <1>0, <2>2, <2>5 DEF TunTypes
    <3> QED BY <1>1, <2>2, <2>3, <2>5, <3>1
  <2>6. CASE UNCHANGED <<phase, lost, copy, eof>>
    BY <1>0, <1>1, <2>2, <2>3, <2>6 DEF TunTypes
  <2> QED BY <2>1, <2>4, <2>5, <2>6
<1>8. CASE ShakeFails
  BY <1>0, <1>8, HangUpKeeps DEF ShakeFails, setup, wire, TunTypes
<1>9. CASE Upgrade
  <2>1. CASE HangUp
    BY <1>0, <1>9, <2>1, HangUpKeeps DEF Upgrade, setup, wire, TunTypes
  <2>2. CASE phase' = "open" /\ copy' = [d \in Ways |-> "run"] /\ UNCHANGED eof
    BY <1>2, <1>9, <2>2 DEF Upgrade, setup, wire
  <2> QED BY <1>9, <2>1, <2>2 DEF Upgrade
\* A sender that has not closed, and a copy that runs, change their own
\* direction only, whose end has not been passed on.
<1>10. ASSUME NEW d \in Ways, Produce(d) PROVE TunInv'
  <2>1. spoken' \in [Ways -> Nat] /\ \A e \in Ways : e # d => spoken'[e] = spoken[e]
    BY <1>0, <1>10 DEF Produce, TunTypes
  <2>2. ~ended[d] /\ UNCHANGED <<kind, phase, ended, taken, given, lost, copy, eof>>
    BY <1>10 DEF Produce, setup
  <2>3. TunTypes' /\ ShutInv' /\ RunInv'
    BY <1>0, <2>1, <2>2, Zenon DEF TunTypes, ShutInv, RunInv
  <2>4. EofMeansAll'
    BY <1>0, <2>1, <2>2, Zenon DEF EofMeansAll
  <2> QED BY <2>3, <2>4 DEF TunInv
<1>11. ASSUME NEW d \in Ways, HalfClose(d) PROVE TunInv'
  <2>1. ended' \in [Ways -> BOOLEAN] /\ \A e \in Ways : ended[e] => ended'[e]
    BY <1>0, <1>11, Zenon DEF HalfClose, TunTypes
  <2>2. UNCHANGED <<kind, phase, spoken, taken, given, lost, copy, eof>>
    BY <1>11 DEF HalfClose, setup
  <2>3. TunTypes' /\ ShutInv' /\ RunInv'
    BY <1>0, <2>1, <2>2, Zenon DEF TunTypes, ShutInv, RunInv
  <2>4. EofMeansAll'
    BY <1>0, <2>1, <2>2, Zenon DEF EofMeansAll
  <2> QED BY <2>3, <2>4 DEF TunInv
<1>12. ASSUME NEW d \in Ways, Take(d) \/ Give(d) PROVE TunInv'
  <2>1. taken' \in [Ways -> Nat] /\ given' \in [Ways -> Nat]
        /\ \A e \in Ways : e # d => given'[e] = given[e]
    <3>1. CASE Take(d)
      BY <1>0, <3>1 DEF Take, TunTypes
    <3>2. CASE Give(d)
      BY <1>0, <3>2 DEF Give, TunTypes
    <3> QED BY <1>12, <3>1, <3>2, Zenon
  <2>2. copy[d] = "run" /\ UNCHANGED <<kind, phase, spoken, ended, lost, copy, eof>>
    BY <1>12, Zenon DEF Take, Give, setup, wire
  <2>3. TunTypes' /\ ShutInv' /\ RunInv'
    BY <1>0, <2>1, <2>2, Zenon DEF TunTypes, ShutInv, RunInv
  <2>4. EofMeansAll'
    BY <1>0, <2>1, <2>2, Zenon DEF EofMeansAll, RunInv
  <2> QED BY <2>3, <2>4 DEF TunInv
<1>13. ASSUME NEW d \in Ways, End(d) PROVE TunInv'
  BY <1>13, OverKeeps, Zenon DEF End, setup, wire
<1>14. ASSUME NEW d \in Ways, Break(d) PROVE TunInv'
  BY <1>14, OverKeeps, Zenon DEF Break, setup, wire
<1>15. CASE UNCHANGED tunVars
  BY <1>0, <1>15 DEF tunVars, TunInv, TunTypes, ShutInv, RunInv, EofMeansAll
<1> QED
  BY <1>3, <1>4, <1>5, <1>6, <1>7, <1>8, <1>9, <1>10, <1>11, <1>12, <1>13, <1>14, <1>15 DEF TunNext

(***************************************************************************)
(* The end of a tunnelled stream comes after all of its data, unless the   *)
(* direction failed or, on a websocket only, the other direction was over: *)
(* for any amount of data and any sizes of the handshakes.                 *)
(***************************************************************************)
THEOREM EndsAfterAll == TunSpec => []EofMeansAll
<1>1. TunInv => EofMeansAll
  BY DEF TunInv
<1> QED BY <1>1, TunInitInv, TunStepInv, PTL DEF TunSpec

=============================================================================
