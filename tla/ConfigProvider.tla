--------------------------- MODULE ConfigProvider ---------------------------
(***************************************************************************)
(* Configuration providers of cluster/provider.rs: each polls its endpoint *)
(* with the ETag of the last answer, parses and validates the body, and    *)
(* replaces the current configuration when it differs.  The pollers run as *)
(* tasks of their own and share only current_config and the callback.      *)
(***************************************************************************)
EXTENDS Naturals, FiniteSets

CONSTANTS
  Providers,   \* the configured HTTP providers
  Docs,        \* documents an endpoint can serve; its ETag is the document
  BadDocs,     \* the ones that do not parse or do not validate
  NoDoc        \* no ETag yet, no configuration yet

ASSUME ProviderConfig == BadDocs \subseteq Docs /\ NoDoc \notin Docs

VARIABLES
  served,     \* the document each endpoint serves
  etag,       \* last_etag of each provider
  poll,       \* where each poll_provider call is, with its document
  current,    \* current_config
  running,    \* the configuration the callback was last given
  missed,     \* history: providers whose last stored ETag had its body lost
  offered,    \* history: the document each provider last compared
  crossed     \* history: the last replacement overlapped another's callback

providerVars == <<served, etag, poll, current, running, missed, offered, crossed>>

AtRest == [at |-> "idle", doc |-> NoDoc]

\* fetch_initial, when it is used and provider p is the first that answers:
\* its document becomes the current configuration, if it is good.
FetchInitial(p) ==
  /\ etag = [q \in Providers |-> IF q = p THEN served[p] ELSE NoDoc]
  /\ current = IF served[p] \in BadDocs THEN NoDoc ELSE served[p]

ProviderInit ==
  /\ served \in [Providers -> Docs]
  /\ \/ etag = [p \in Providers |-> NoDoc] /\ current = NoDoc
     \/ \E p \in Providers : FetchInitial(p)
  /\ poll = [p \in Providers |-> AtRest]
  /\ running = current /\ offered = etag
  /\ missed = {} /\ crossed = FALSE

-----------------------------------------------------------------------------
\* Mutated forms of the operations below.

ReplaceQuietly(p) ==
  /\ poll[p].at = "write"
  /\ current' = poll[p].doc
  /\ poll' = [poll EXCEPT ![p] = AtRest]
  /\ crossed' = FALSE
  /\ UNCHANGED <<served, etag, running, missed, offered>>

-----------------------------------------------------------------------------
\* The operators change what an endpoint serves.
Publish(p) ==
  /\ served' \in {[served EXCEPT ![p] = d] : d \in Docs \ {served[p]}}
  /\ UNCHANGED <<etag, poll, current, running, missed, offered, crossed>>

\* fetch: an error or a 304 ends the poll; a success stores the ETag before
\* the body is read, and the body may be lost.
Fetch(p) ==
  /\ poll[p].at = "idle"
  /\ served[p] # etag[p]
  /\ etag' = [etag EXCEPT ![p] = served[p]]
  /\ \/ /\ poll' = [poll EXCEPT ![p] = [at |-> "fetched", doc |-> served[p]]]
        /\ missed' = missed \ {p}
     \/ missed' = missed \cup {p} /\ UNCHANGED poll
  /\ UNCHANGED <<served, current, running, offered, crossed>>

\* poll_provider: parse and validate ...
Validate(p) ==
  /\ poll[p].at = "fetched"
  /\ poll' = [poll EXCEPT ![p] = IF poll[p].doc \in BadDocs THEN AtRest
                                 ELSE [@ EXCEPT !.at = "valid"]]
  /\ UNCHANGED <<served, etag, current, running, missed, offered, crossed>>

\* ... compare with the current configuration under its read lock ...
Compare(p) ==
  /\ poll[p].at = "valid"
  /\ poll' = [poll EXCEPT ![p] = IF poll[p].doc = current THEN AtRest
                                 ELSE [@ EXCEPT !.at = "write"]]
  /\ offered' = [offered EXCEPT ![p] = poll[p].doc]
  /\ UNCHANGED <<served, etag, current, running, missed, crossed>>

\* ... replace it under the write lock ...
Replace(p) ==
  /\ poll[p].at = "write"
  /\ current' = poll[p].doc
  /\ crossed' = \E q \in Providers : poll[q].at = "callback"
  /\ poll' = [poll EXCEPT ![p].at = "callback"]
  /\ UNCHANGED <<served, etag, running, missed, offered>>

\* ... and tell the callback.
Callback(p) ==
  /\ poll[p].at = "callback"
  /\ running' = poll[p].doc
  /\ poll' = [poll EXCEPT ![p] = AtRest]
  /\ UNCHANGED <<served, etag, current, missed, offered, crossed>>

ProviderNext ==
  \E p \in Providers : \/ Publish(p) \/ Fetch(p) \/ Validate(p)
                       \/ Compare(p) \/ Replace(p) \/ Callback(p)

ProviderSpec == ProviderInit /\ [][ProviderNext]_providerVars

-----------------------------------------------------------------------------

Quiet == \A p \in Providers : poll[p].at = "idle"

(***************************************************************************)
(* A good document whose ETag a provider has stored, so that the endpoint  *)
(* answers 304 from now on, was compared with the current configuration,   *)
(* or its body was lost after the ETag was stored.                         *)
(***************************************************************************)
NotSkipped ==
  \A p \in Providers :
    poll[p].at = "idle" /\ etag[p] \notin BadDocs \cup {NoDoc} /\ p \notin missed
      => offered[p] = etag[p]

(***************************************************************************)
(* Between polls the proxy runs the configuration current_config names,    *)
(* unless two providers were replacing it at the same time: then their     *)
(* callbacks may come in the other order.                                  *)
(***************************************************************************)
RunsCurrent == Quiet /\ ~crossed => running = current

\* Documents are neither lost nor mixed up on their way: each is compared once
\* its ETag is stored, and what runs is what current_config names.
ConfigurationKept == NotSkipped /\ RunsCurrent
=============================================================================
