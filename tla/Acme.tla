------------------------------- MODULE Acme ---------------------------------
(***************************************************************************)
(* Certificates from an ACME authority: main.rs and tls/acme/ order them   *)
(* at start-up and renew them from a background task, the storage keeps    *)
(* them in memory and on disk, tls/resolver.rs serves them from a cache.   *)
(* A certificate is its remaining life in ticks, -1 once it has expired;   *)
(* the authority validates a challenge by asking this process over HTTP.   *)
(* The client is behind a lock and the renewal task starts after start-up, *)
(* so one order runs at a time.                                            *)
(***************************************************************************)
EXTENDS Integers, FiniteSets

CONSTANTS
  DomainSets,   \* the domain sets of the routers, disjoint
  NoCert,
  Life,         \* ticks a new certificate is taken to be valid
  Margin,       \* a certificate with less than this is renewed
  Polls,        \* attempts of each wait loop
  MaxFaults,    \* bound on requests, saves and processes that fail
  MaxIdle       \* bound on the ticks the authority and the task stay idle

ASSUME AcmeConfig ==
  /\ IsFiniteSet(DomainSets) /\ {Life, Margin, Polls} \subseteq Nat \ {0}
  /\ Margin < Life /\ {MaxFaults, MaxIdle} \subseteq Nat
  /\ NoCert \notin -1 .. Life

VARIABLES
  process,   \* down, starting or serving
  mem,       \* the storage in memory, per domain set
  disk,      \* the storage file
  served,    \* the resolver's cache
  todo,      \* what this pass of start-up or renewal has still to look at
  order,     \* the order in progress
  tokens,    \* pending_challenges
  authz,     \* the authority's view of each challenge
  unsaved,   \* sets stored in memory by a save that failed
  faults,    \* failures so far
  idle       \* ticks since the last step of an order or a pass

acmeVars == <<process, mem, disk, served, todo, order, tokens, authz, unsaved,
              faults, idle>>

NoOrder == [set |-> NoCert, step |-> "none", tries |-> 0]

Cert == -1 .. Life

Starting == process = "starting"

Idle == order = NoOrder

AcmeInit ==
  /\ process = "down" /\ disk \in [DomainSets -> {NoCert, Margin - 1, Life}]
  /\ mem = [s \in DomainSets |-> NoCert] /\ served = mem
  /\ todo = {} /\ order = NoOrder /\ tokens = {} /\ unsaved = {}
  /\ authz = [s \in DomainSets |-> "none"]
  /\ faults = 0 /\ idle = 0

NeedsRenewal(c) == c # NoCert /\ c < Margin

\* get_all_certificates: what is not expired.
Unexpired(m) == [s \in DomainSets |-> IF m[s] = -1 THEN NoCert ELSE m[s]]

At(s, step) == order.set = s /\ order.step = step

Go(s, step) == order' = [set |-> s, step |-> step, tries |-> 0]

\* An error anywhere in order_certificate: it is logged and the pass goes on.
Abandon == order' = NoOrder

-----------------------------------------------------------------------------
\* Mutated forms of the operations below.

RefreshKeepsCache(s) ==
  /\ At(s, "refresh") /\ Abandon
  /\ served' = [t \in DomainSets |-> IF served[t] # NoCert THEN served[t] ELSE Unexpired(mem)[t]]
  /\ UNCHANGED <<process, mem, disk, todo, tokens, authz, unsaved, faults>> /\ idle' = 0

RenewalPassExpired ==
  /\ process = "serving" /\ Idle /\ todo = {}
  /\ todo' = {s \in DomainSets : mem[s] = -1} /\ todo' # {}
  /\ UNCHANGED <<process, mem, disk, served, order, tokens, authz, unsaved, faults>> /\ idle' = 0

-----------------------------------------------------------------------------
\* AcmeManager::new and build: the file is read, the cache filled from it,
\* and the configured domain sets looked at before anything listens.
Boot ==
  /\ process = "down" /\ process' = "starting"
  /\ mem' = disk /\ served' = Unexpired(disk) /\ todo' = DomainSets
  /\ tokens' = {} /\ unsaved' = {}
  /\ UNCHANGED <<disk, order, authz, faults>> /\ idle' = 0

\* The file cannot be read, the directory not fetched or the account not made:
\* main starts the server without any of this.
BootFails ==
  /\ process = "down" /\ faults < MaxFaults /\ faults' = faults + 1
  /\ process' = "serving"
  /\ UNCHANGED <<mem, disk, served, todo, order, tokens, authz, unsaved>> /\ idle' = 0

\* ensure_certificates: a set with a certificate that lasts is skipped.
Ensure(s) ==
  /\ Starting /\ Idle /\ s \in todo /\ todo' = todo \ {s}
  /\ IF mem[s] # NoCert /\ ~NeedsRenewal(mem[s])
     THEN UNCHANGED order ELSE Go(s, "new")
  /\ UNCHANGED <<process, mem, disk, served, tokens, authz, unsaved, faults>> /\ idle' = 0

\* Server::run: the listeners and the renewal task.
Listen ==
  /\ Starting /\ Idle /\ todo = {} /\ process' = "serving"
  /\ UNCHANGED <<mem, disk, served, todo, order, tokens, authz, unsaved, faults>> /\ idle' = 0

\* A pass of the renewal task takes what needs renewal now, and orders each.
RenewalPass ==
  /\ process = "serving" /\ Idle /\ todo = {}
  /\ todo' = {s \in DomainSets : NeedsRenewal(mem[s])} /\ todo' # {}
  /\ UNCHANGED <<process, mem, disk, served, order, tokens, authz, unsaved, faults>> /\ idle' = 0

Renew(s) ==
  /\ process = "serving" /\ Idle /\ s \in todo /\ todo' = todo \ {s}
  /\ Go(s, "new")
  /\ UNCHANGED <<process, mem, disk, served, tokens, authz, unsaved, faults>> /\ idle' = 0

-----------------------------------------------------------------------------
\* newOrder: the authority remembers an authorization that is still valid
\* and otherwise makes a new challenge.
NewOrder(s) ==
  /\ At(s, "new") /\ Go(s, "authorize")
  /\ authz' = [authz EXCEPT ![s] = IF @ = "valid" THEN "valid" ELSE "pending"]
  /\ UNCHANGED <<process, mem, disk, served, todo, tokens, unsaved, faults>> /\ idle' = 0

AlreadyValid(s) ==
  /\ At(s, "authorize") /\ authz[s] = "valid" /\ Go(s, "ready")
  /\ UNCHANGED <<process, mem, disk, served, todo, tokens, authz, unsaved, faults>> /\ idle' = 0

\* process_authorization: the answer is registered, then the authority told.
Register(s) ==
  /\ At(s, "authorize") /\ authz[s] = "pending"
  /\ tokens' = tokens \cup {s} /\ Go(s, "respond")
  /\ UNCHANGED <<process, mem, disk, served, todo, authz, unsaved, faults>> /\ idle' = 0

Respond(s) ==
  /\ At(s, "respond") /\ authz' = [authz EXCEPT ![s] = "processing"]
  /\ Go(s, "challenge")
  /\ UNCHANGED <<process, mem, disk, served, todo, tokens, unsaved, faults>> /\ idle' = 0

\* The authority asks for the answer; ChallengeHandler has it or has not,
\* and nothing answers before the listeners run.
Validate(s) ==
  /\ authz[s] = "processing"
  /\ authz' = [authz EXCEPT ![s] = IF process = "serving" /\ s \in tokens
                                   THEN "valid" ELSE "invalid"]
  /\ UNCHANGED <<process, mem, disk, served, todo, order, tokens, unsaved, faults>> /\ idle' = 0

\* One poll of wait_for_challenge_valid.
PollChallenge(s) ==
  /\ At(s, "challenge")
  /\ \/ authz[s] = "valid" /\ tokens' = tokens \ {s} /\ Go(s, "ready")
     \/ authz[s] = "invalid" /\ UNCHANGED tokens /\ Abandon
     \/ /\ authz[s] \notin {"valid", "invalid"} /\ UNCHANGED tokens
        /\ IF order.tries + 1 = Polls THEN Abandon
           ELSE order' = [order EXCEPT !.tries = @ + 1]
  /\ UNCHANGED <<process, mem, disk, served, todo, authz, unsaved, faults>> /\ idle' = 0

\* wait_for_order_ready, finalize, wait_for_order_valid and the download:
\* the authority is done, or not yet.
Finalize(s) ==
  /\ At(s, "ready")
  /\ \/ Go(s, "store")
     \/ order.tries + 1 < Polls /\ order' = [order EXCEPT !.tries = @ + 1]
  /\ UNCHANGED <<process, mem, disk, served, todo, tokens, authz, unsaved, faults>> /\ idle' = 0

\* store_certificate: the map, then the file by way of a temporary one.
Store(s) ==
  /\ At(s, "store")
  /\ mem' = [mem EXCEPT ![s] = Life] /\ disk' = mem' /\ unsaved' = {}
  /\ Go(s, "refresh")
  /\ UNCHANGED <<process, served, todo, tokens, authz, faults>> /\ idle' = 0

StoreUnsaved(s) ==
  /\ At(s, "store") /\ faults < MaxFaults /\ faults' = faults + 1
  /\ mem' = [mem EXCEPT ![s] = Life] /\ unsaved' = unsaved \cup {s} /\ Abandon
  /\ UNCHANGED <<process, disk, served, todo, tokens, authz>> /\ idle' = 0

\* refresh_acme_cache, after an order that went well.
Refresh(s) ==
  /\ At(s, "refresh") /\ served' = Unexpired(mem) /\ Abandon
  /\ UNCHANGED <<process, mem, disk, todo, tokens, authz, unsaved, faults>> /\ idle' = 0

\* A request to the authority fails; a registered answer stays registered.
RequestFails ==
  /\ ~Idle /\ order.step \notin {"store", "refresh"}
  /\ faults < MaxFaults /\ faults' = faults + 1 /\ Abandon
  /\ UNCHANGED <<process, mem, disk, served, todo, tokens, authz, unsaved>> /\ idle' = 0

Crash ==
  /\ process # "down" /\ faults < MaxFaults /\ faults' = faults + 1
  /\ process' = "down" /\ Abandon /\ todo' = {}
  /\ mem' = [s \in DomainSets |-> NoCert] /\ served' = mem' /\ tokens' = {}
  /\ unsaved' = {}
  /\ UNCHANGED <<disk, authz>> /\ idle' = 0

-----------------------------------------------------------------------------
\* find_cert: the cache, whatever the age of its entry, else the storage.
FindCert(s) == IF served[s] # NoCert THEN served[s] ELSE Unexpired(mem)[s]

Handshake(s) ==
  /\ process = "serving" /\ served[s] = NoCert /\ FindCert(s) # NoCert
  /\ served' = [served EXCEPT ![s] = FindCert(s)]
  /\ UNCHANGED <<process, mem, disk, todo, order, tokens, authz, unsaved, faults, idle>>

\* Time passes; passes and orders take little of it.
Older(m) == [s \in DomainSets |-> IF m[s] \in {NoCert, -1} THEN m[s] ELSE m[s] - 1]

AcmeTick ==
  /\ idle < MaxIdle /\ idle' = idle + 1
  /\ mem' = Older(mem) /\ disk' = Older(disk) /\ served' = Older(served)
  /\ UNCHANGED <<process, todo, order, tokens, authz, unsaved, faults>>

\* Time goes by with nothing to renew; the authority forgets authorizations.
QuietTick ==
  /\ process = "serving" /\ Idle /\ todo = {} /\ \A s \in DomainSets : ~NeedsRenewal(mem[s])
  /\ mem' = Older(mem) /\ disk' = Older(disk) /\ served' = Older(served)
  /\ authz' = [s \in DomainSets |-> IF authz[s] = "valid" THEN "none" ELSE authz[s]]
  /\ UNCHANGED <<process, todo, order, tokens, unsaved, faults>> /\ idle' = 0

OrderStep ==
  \E s \in DomainSets :
    \/ NewOrder(s) \/ AlreadyValid(s) \/ Register(s) \/ Respond(s)
    \/ PollChallenge(s) \/ Finalize(s) \/ Store(s) \/ StoreUnsaved(s) \/ Refresh(s)

PassStep ==
  Boot \/ BootFails \/ Listen \/ RenewalPass \/ \E s \in DomainSets : Ensure(s) \/ Renew(s)

AcmeNext ==
  \/ OrderStep \/ PassStep \/ RequestFails \/ Crash \/ AcmeTick \/ QuietTick
  \/ \E s \in DomainSets : Validate(s) \/ Handshake(s)

AcmeSpec == AcmeInit /\ [][AcmeNext]_acmeVars

\* The tasks run, time passes, and the authority looks at its challenges and
\* completes orders in the end.
AcmeFairSpec ==
  /\ AcmeSpec /\ WF_acmeVars(PassStep) /\ WF_acmeVars(OrderStep) /\ WF_acmeVars(QuietTick)
  /\ \A s \in DomainSets :
       /\ SF_acmeVars(Validate(s)) /\ WF_acmeVars(Renew(s))
       /\ WF_acmeVars(Finalize(s) /\ order'.step = "store")

-----------------------------------------------------------------------------

(***************************************************************************)
(* While the authority may ask for the answer to a challenge and the order *)
(* waits for it, the answer is there: process_authorization registers it   *)
(* before it tells the authority and removes it after the challenge.       *)
(***************************************************************************)
AnswerReady ==
  \A s \in DomainSets :
    authz[s] = "processing" /\ At(s, "challenge") => s \in tokens

(***************************************************************************)
(* A crash loses no certificate that handshakes are served with, except    *)
(* one whose save failed: what is in the cache is on disk as well, as      *)
(* young or younger.                                                       *)
(***************************************************************************)
ServedIsSaved ==
  \A s \in DomainSets :
    served[s] # NoCert /\ s \notin unsaved => disk[s] # NoCert /\ disk[s] >= served[s]

(***************************************************************************)
(* An expired certificate is served only when the storage has no better    *)
(* one, or the save of the better one failed, or the cache is about to be  *)
(* refreshed.                                                              *)
(***************************************************************************)
StaleOnlyUnsaved ==
  \A s \in DomainSets :
    process = "serving" /\ served[s] = -1 /\ mem[s] >= 0 =>
      s \in unsaved \/ order.step = "refresh"

(***************************************************************************)
(* A certificate the storage holds is renewed for ever: one that is due is *)
(* replaced in the end and served, whatever failed before, unless the      *)
(* process was restarted and had to start without ACME.                    *)
(***************************************************************************)
RenewedForEver ==
  \A s \in DomainSets :
    process = "serving" /\ NeedsRenewal(mem[s]) ~>
      \/ served[s] # NoCert /\ ~NeedsRenewal(served[s])
      \/ process = "serving" /\ mem[s] = NoCert

(***************************************************************************)
(* What the README calls automatic certificate provisioning: a configured  *)
(* domain set has a certificate in the end.                                *)
(***************************************************************************)
Provisioned == \A s \in DomainSets : <>(mem[s] # NoCert)

(***************************************************************************)
(* Through crashes and failing saves, challenges can be answered while     *)
(* they are asked for, and what is served is the best that is saved.       *)
(***************************************************************************)
AcmeSafe == AnswerReady /\ ServedIsSaved /\ StaleOnlyUnsaved
=============================================================================
