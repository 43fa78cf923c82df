------------------------------- MODULE Sticky -------------------------------
(***************************************************************************)
(* Sticky sessions, balancer/sticky.rs: every node keeps a local cache of  *)
(* the server a session belongs to, in front of the store they share.  A   *)
(* session is created on one node, written to the store by a task of its   *)
(* own, looked up on any node and deleted on any node; the calls to the    *)
(* store are awaited, so they interleave.                                  *)
(***************************************************************************)
EXTENDS Naturals

CONSTANTS
  StickyNodes,   \* nodes of the cluster
  Sids,          \* session ids: generate_session_id never repeats one
  NoEntry,
  CacheTtl,      \* local_cache_ttl, in ticks: the session_ttl, at most 5 minutes
  SessionTtl     \* session_ttl, in ticks

ASSUME StickyConfig ==
  /\ CacheTtl \in Nat \ {0} /\ SessionTtl \in Nat /\ CacheTtl <= SessionTtl
  /\ NoEntry \notin 0 .. CacheTtl /\ NoEntry \notin Sids

VARIABLES
  cache,     \* local_cache of each node: the age of an entry up to CacheTtl, or NoEntry
  stored,    \* ticks a session has left in the store, 0 when it is not there
  newSids,     \* ids not handed out yet
  writes,    \* spawned tasks that have not reached the store
  lookup,    \* distributed lookup of each node: idle, or its id and what the store said
  deletes,   \* delete_session calls that have left the cache and not reached the store
  quiet      \* ticks since the store lost a session with nothing in flight, up to CacheTtl

stickyVars == <<cache, stored, newSids, writes, lookup, deletes, quiet>>

NoLookup == [id |-> NoEntry, found |-> FALSE]

StickyInit ==
  /\ cache = [n \in StickyNodes |-> [s \in Sids |-> NoEntry]]
  /\ stored = [s \in Sids |-> 0]
  /\ newSids = Sids
  /\ writes = {}
  /\ lookup = [n \in StickyNodes |-> NoLookup]
  /\ deletes = {}
  /\ quiet = [s \in Sids |-> 0]

\* get_sticky_server: the answer of the cache alone.
Cached(n, s) == cache[n][s] # NoEntry /\ cache[n][s] < CacheTtl

InFlight(s) == s \in writes \/ \E n \in StickyNodes : lookup[n].id = s

\* Mutant: a hit renews the entry.
GetRenews(n, s) ==
  /\ s \notin newSids /\ lookup[n] = NoLookup
  /\ Cached(n, s)
  /\ cache' = [cache EXCEPT ![n][s] = 0]
  /\ UNCHANGED <<stored, newSids, writes, lookup, deletes, quiet>>

\* maybe_cleanup, when its interval has passed: entries too old to be served.
Swept(n) == [s \in Sids |-> IF Cached(n, s) THEN cache[n][s] ELSE NoEntry]

\* create_session: the entry goes to the cache at once, the write is a task
\* of its own, and the cache may be swept.  create_session_sync differs in
\* that it waits for the write and does not sweep.
CreateSession(n, s) ==
  /\ s \in newSids /\ newSids' = newSids \ {s}
  /\ \E sweep \in BOOLEAN :
       cache' = [cache EXCEPT ![n] = [(IF sweep THEN Swept(n) ELSE cache[n]) EXCEPT ![s] = 0]]
  /\ writes' = writes \cup {s}
  /\ UNCHANGED <<stored, lookup, deletes, quiet>>

\* The task's sticky_session_set arrives, or fails and is only logged.
StoreSession(s) ==
  /\ s \in writes /\ writes' = writes \ {s}
  /\ stored' \in {stored, [stored EXCEPT ![s] = SessionTtl]}
  /\ UNCHANGED <<cache, newSids, lookup, deletes, quiet>>

\* get_sticky_server_distributed: a hit in the cache changes nothing...
Get(n, s) ==
  /\ s \notin newSids /\ lookup[n] = NoLookup
  /\ Cached(n, s)
  /\ UNCHANGED stickyVars

\* ...a miss asks the store, which answers what it has at that moment or fails...
Ask(n, s) ==
  /\ s \notin newSids /\ lookup[n] = NoLookup
  /\ ~Cached(n, s)
  /\ \E found \in BOOLEAN :
       (found => stored[s] > 0) /\ lookup' = [lookup EXCEPT ![n] = [id |-> s, found |-> found]]
  /\ UNCHANGED <<cache, stored, newSids, writes, deletes, quiet>>

\* ...and the answer, once here, goes into the cache as new.
Fill(n) ==
  /\ lookup[n] # NoLookup
  /\ cache' = IF lookup[n].found THEN [cache EXCEPT ![n][lookup[n].id] = 0] ELSE cache
  /\ lookup' = [lookup EXCEPT ![n] = NoLookup]
  /\ UNCHANGED <<stored, newSids, writes, deletes, quiet>>

\* delete_session forgets the session here and then in the store, which may fail.
DeleteSession(n, s) ==
  /\ s \notin newSids /\ s \notin deletes
  /\ cache' = [cache EXCEPT ![n][s] = NoEntry]
  /\ deletes' = deletes \cup {s}
  /\ UNCHANGED <<stored, newSids, writes, lookup, quiet>>

DeleteStored(s) ==
  /\ s \in deletes /\ deletes' = deletes \ {s}
  /\ stored' \in {stored, [stored EXCEPT ![s] = 0]}
  /\ UNCHANGED <<cache, newSids, writes, lookup, quiet>>

StickyTick ==
  /\ cache' = [n \in StickyNodes |-> [s \in Sids |->
        IF cache[n][s] = NoEntry \/ cache[n][s] = CacheTtl THEN cache[n][s]
        ELSE cache[n][s] + 1]]
  /\ stored' = [s \in Sids |-> IF stored[s] > 0 THEN stored[s] - 1 ELSE 0]
  /\ quiet' = [s \in Sids |-> IF stored[s] > 0 \/ InFlight(s) \/ s \in newSids THEN 0
                              ELSE IF quiet[s] < CacheTtl THEN quiet[s] + 1 ELSE CacheTtl]
  /\ UNCHANGED <<newSids, writes, lookup, deletes>>

StickyNext ==
  \/ \E n \in StickyNodes, s \in Sids :
       CreateSession(n, s) \/ Get(n, s) \/ Ask(n, s) \/ DeleteSession(n, s)
  \/ \E n \in StickyNodes : Fill(n)
  \/ \E s \in Sids : StoreSession(s) \/ DeleteStored(s)
  \/ StickyTick

StickySpec == StickyInit /\ [][StickyNext]_stickyVars

-----------------------------------------------------------------------------
(* Properties *)

\* Types: ages and lifetimes stay inside their ttls.
StickyTypeOK ==
  /\ cache \in [StickyNodes -> [Sids -> {NoEntry} \cup 0 .. CacheTtl]]
  /\ stored \in [Sids -> 0 .. SessionTtl]
  /\ newSids \subseteq Sids /\ writes \subseteq Sids \ newSids /\ deletes \subseteq Sids \ newSids
  /\ lookup \in [StickyNodes -> [id : Sids \cup {NoEntry}, found : BOOLEAN]]
  /\ quiet \in [Sids -> 0 .. CacheTtl]

\* Once the store has lost a session, by its ttl or by a delete on any node,
\* and no write or lookup of it is under way, no node sends its requests to
\* the old server for longer than the local cache's ttl.
StaleBounded ==
  \A n \in StickyNodes, s \in Sids :
    Cached(n, s) /\ stored[s] = 0 /\ ~InFlight(s) => quiet[s] < CacheTtl

=============================================================================
