--------------------------- MODULE BackendProofs ----------------------------
(***************************************************************************)
(* Proofs about passive health and the request path that follows it, for   *)
(* every set of services, URLs and server lists, every threshold and       *)
(* window, any number of concurrent handlers and any number of reloads.    *)
(***************************************************************************)
EXTENDS ProxyHealth, WellFoundedInduction, TLAPS

-----------------------------------------------------------------------------
(* Passive health                                                          *)

(* The reset-or-count of a saturating counter stays within its cap. *)
LEMMA UpToType ==
    ASSUME NEW n \in Nat, NEW cap \in Nat
    PROVE  UpTo(n, cap) \in 0 .. cap
BY DEF UpTo

LEMMA NewBackendType == NewBackend \in BackendState
BY PassiveConfig DEF NewBackend, BackendState

(* Adding a response to the window keeps its shape. *)
LEMMA WindowAddType ==
    ASSUME NEW w \in [Ages -> 0 .. FailureThreshold], NEW failed \in BOOLEAN
    PROVE  WindowAdd(w, failed) \in [Ages -> 0 .. FailureThreshold]
<1> DEFINE n == UpTo(w[0] + 1, FailureThreshold)
<1>1. 0 \in Ages
  BY PassiveConfig DEF Ages
<1>2. w[0] \in 0 .. FailureThreshold
  BY <1>1, ZenonT(30)
<1>3. FailureThreshold \in Nat /\ w[0] + 1 \in Nat
  BY <1>2, PassiveConfig
<1>4. n \in 0 .. FailureThreshold
  BY <1>3, UpToType, ZenonT(30)
<1>5. WindowAdd(w, failed) = IF failed THEN [w EXCEPT ![0] = n] ELSE w
  BY ZenonT(30) DEF WindowAdd
<1> HIDE DEF n
<1> QED BY <1>4, <1>5, ZenonT(30)

(* The two saturating counters stay within their thresholds. *)
LEMMA CountersType ==
    ASSUME NEW b \in BackendState
    PROVE  /\ UpTo(b.failures + 1, FailureThreshold) \in 0 .. FailureThreshold
           /\ UpTo(b.successes + 1, SuccessThreshold) \in 0 .. SuccessThreshold
           /\ 0 \in 0 .. FailureThreshold
           /\ 0 \in 0 .. SuccessThreshold
<1>1. b.failures \in 0 .. FailureThreshold /\ b.successes \in 0 .. SuccessThreshold
  BY ZenonT(30) DEF BackendState
<1>2. /\ FailureThreshold \in Nat /\ SuccessThreshold \in Nat
      /\ b.failures + 1 \in Nat /\ b.successes + 1 \in Nat
  BY <1>1, PassiveConfig
<1>3. 0 \in 0 .. FailureThreshold /\ 0 \in 0 .. SuccessThreshold
  BY <1>2
<1> QED BY <1>2, <1>3, UpToType, ZenonT(30)

(* Counting a response keeps the shape of a BackendState. *)
LEMMA CountedType ==
    ASSUME NEW b \in BackendState, NEW failed \in BOOLEAN
    PROVE  /\ Counted(b, failed) \in BackendState
           /\ Counted(b, failed).healthy = b.healthy
           /\ failed => Counted(b, failed).successes = 0
           /\ ~failed => Counted(b, failed).failures = 0
<1> DEFINE f == IF failed THEN UpTo(b.failures + 1, FailureThreshold) ELSE 0
           s == IF failed THEN 0 ELSE UpTo(b.successes + 1, SuccessThreshold)
           w == WindowAdd(b.window, failed)
<1>1. f \in 0 .. FailureThreshold /\ s \in 0 .. SuccessThreshold
  BY CountersType, ZenonT(30)
<1>2. w \in [Ages -> 0 .. FailureThreshold]
  <2>1. b.window \in [Ages -> 0 .. FailureThreshold]
    BY ZenonT(30) DEF BackendState
  <2> QED BY <2>1, WindowAddType, ZenonT(30)
<1>3. Counted(b, failed) =
        [b EXCEPT !.failures = f, !.successes = s, !.window = w]
  BY DEF Counted
<1>4. (failed => s = 0) /\ (~failed => f = 0)
  BY ZenonT(30)
<1> HIDE DEF w, f, s
<1> QED
  BY <1>1, <1>2, <1>3, <1>4, ZenonT(30) DEF BackendState

LEMMA EjectedType ==
    ASSUME NEW c \in BackendState
    PROVE  /\ Ejected(c) \in BackendState
           /\ ~Ejected(c).healthy
           /\ Ejected(c).successes = 0
BY PassiveConfig DEF Ejected, BackendState

LEMMA ReadmittedType ==
    ASSUME NEW c \in BackendState
    PROVE  /\ Readmitted(c) \in BackendState
           /\ Readmitted(c).healthy
           /\ Readmitted(c).failures = 0
BY PassiveConfig DEF Readmitted, BackendState

(***************************************************************************)
(* What record_response does to one backend: its shape is kept, a healthy  *)
(* verdict leaves it below the failure threshold and an unhealthy one      *)
(* below the success threshold, and readmission takes a success that       *)
(* completes the count.                                                    *)
(***************************************************************************)
LEMMA RecordedFacts ==
    ASSUME NEW b \in BackendState, NEW failed \in BOOLEAN
    PROVE  /\ Recorded(b, failed) \in BackendState
           /\ Recorded(b, failed).healthy =>
                 Recorded(b, failed).failures < FailureThreshold
           /\ ~Recorded(b, failed).healthy =>
                 Recorded(b, failed).successes < SuccessThreshold
           /\ ~b.healthy /\ Recorded(b, failed).healthy =>
                 ~failed /\ b.successes + 1 >= SuccessThreshold
           /\ b.healthy /\ ~Recorded(b, failed).healthy =>
                 Recorded(b, failed).successes = 0
           /\ ~(b.healthy /\ ~Recorded(b, failed).healthy) =>
                 Recorded(b, failed).successes =
                    IF failed THEN 0 ELSE UpTo(b.successes + 1, SuccessThreshold)
<1> DEFINE c == Counted(b, failed)
<1>1. c \in BackendState /\ c.healthy = b.healthy
  BY CountedType
<1>2. c.successes = IF failed THEN 0 ELSE UpTo(b.successes + 1, SuccessThreshold)
  BY DEF Counted, BackendState
<1>3. CASE MustEject(c)
  <2>1. Recorded(b, failed) = Ejected(c) /\ b.healthy
    BY <1>1, <1>3 DEF Recorded, MustEject
  <2> QED BY <1>1, <2>1, EjectedType, PassiveConfig DEF BackendState
<1>4. CASE ~MustEject(c) /\ MustReadmit(c)
  <2>1. Recorded(b, failed) = Readmitted(c) /\ ~b.healthy
        /\ c.successes >= SuccessThreshold
    BY <1>1, <1>4 DEF Recorded, MustReadmit
  <2>2. Readmitted(c).successes = c.successes
    BY <1>1 DEF Readmitted, BackendState
  <2>3. ~failed /\ b.successes + 1 >= SuccessThreshold
    BY <1>2, <2>1, PassiveConfig DEF UpTo, BackendState
  <2> QED BY <1>1, <1>2, <2>1, <2>2, <2>3, ReadmittedType, PassiveConfig DEF BackendState
<1>5. CASE ~MustEject(c) /\ ~MustReadmit(c)
  <2>1. Recorded(b, failed) = c
    BY <1>5 DEF Recorded
  <2>2. c.healthy => c.failures < FailureThreshold
    BY <1>1, <1>5, PassiveConfig DEF MustEject, BackendState
  <2>3. ~c.healthy => c.successes < SuccessThreshold
    BY <1>1, <1>5, PassiveConfig DEF MustReadmit, BackendState
  <2> QED BY <1>1, <1>2, <2>1, <2>2, <2>3
<1> QED BY <1>3, <1>4, <1>5

LEMMA OlderFacts ==
    ASSUME NEW b \in BackendState
    PROVE  /\ Older(b) \in BackendState
           /\ Older(b).healthy = b.healthy
           /\ Older(b).failures = b.failures
           /\ Older(b).successes = b.successes
<1> DEFINE d == IF b.healthy THEN 0 ELSE UpTo(b.downFor + 1, RecoveryInterval)
           w == [a \in Ages |-> IF a = 0 THEN 0 ELSE b.window[a - 1]]
<1>1. d \in 0 .. RecoveryInterval
  BY PassiveConfig DEF UpTo, BackendState
<1>2. w \in [Ages -> 0 .. FailureThreshold]
  BY PassiveConfig DEF Ages, BackendState
<1>3. Older(b) = [b EXCEPT !.downFor = d, !.window = w]
  BY DEF Older
<1> HIDE DEF w, d
<1> QED BY <1>1, <1>2, <1>3, ZenonT(30) DEF BackendState

-----------------------------------------------------------------------------
(***************************************************************************)
(* The inductive invariant: besides the type and the promptness of the     *)
(* verdict, the history counter is the code's consecutive_successes.  The  *)
(* code resets that counter with the ejection, which is what makes the two *)
(* agree even when a success ejects.                                       *)
(***************************************************************************)
PassiveInv ==
    /\ PassiveTypeOK
    /\ VerdictPrompt
    /\ \A u \in Urls : streak[u] = backends[u].successes

LEMMA PassiveInitInv == PassiveInit => PassiveInv
<1> SUFFICES ASSUME PassiveInit PROVE PassiveInv
  OBVIOUS
<1>1. \A u \in Urls : backends[u] = NewBackend /\ streak[u] = 0
  BY DEF PassiveInit
<1>2. PassiveTypeOK
  BY NewBackendType, PassiveConfig DEF PassiveInit, PassiveTypeOK
<1> QED
  BY <1>1, <1>2, PassiveConfig
     DEF PassiveInv, VerdictPrompt, IsHealthy, NewBackend

(* A response to u keeps the invariant, and readmits u only when earned. *)
LEMMA RecordResponseInv ==
    ASSUME PassiveInv, NEW u \in Urls, NEW failed \in BOOLEAN,
           RecordResponse(u, failed)
    PROVE  /\ PassiveInv'
           /\ \A v \in Urls :
                ~IsHealthy(v) /\ IsHealthy(v)' => streak'[v] >= SuccessThreshold
<1> DEFINE b == backends[u]
           c == Recorded(b, failed)
<1>1. b \in BackendState /\ streak[u] = b.successes
  BY DEF PassiveInv, PassiveTypeOK
<1>2. /\ backends' \in [Urls -> BackendState]
      /\ backends'[u] = c
      /\ \A v \in Urls \ {u} : backends'[v] = backends[v]
  BY <1>1, RecordedFacts DEF RecordResponse, PassiveInv, PassiveTypeOK
<1>3. /\ streak' \in [Urls -> 0 .. SuccessThreshold]
      /\ streak'[u] = c.successes
      /\ \A v \in Urls \ {u} : streak'[v] = streak[v]
  <2> DEFINE n == IF failed \/ (b.healthy /\ ~c.healthy) THEN 0
                  ELSE UpTo(streak[u] + 1, SuccessThreshold)
  <2>1. streak' = [streak EXCEPT ![u] = n]
    BY <1>2 DEF RecordResponse, IsHealthy
  <2>2. n = c.successes
    BY <1>1, RecordedFacts
  <2>3. n \in 0 .. SuccessThreshold
    BY <1>1, <2>2, RecordedFacts DEF BackendState
  <2> QED BY <2>1, <2>2, <2>3 DEF PassiveInv, PassiveTypeOK
<1>4. PassiveTypeOK'
  BY <1>2, <1>3 DEF PassiveTypeOK
<1>5. VerdictPrompt'
  BY <1>1, <1>2, RecordedFacts DEF PassiveInv, VerdictPrompt, IsHealthy
<1>6. \A v \in Urls : streak'[v] = backends'[v].successes
  BY <1>2, <1>3 DEF PassiveInv
<1>7. \A v \in Urls :
        ~IsHealthy(v) /\ IsHealthy(v)' => streak'[v] >= SuccessThreshold
  <2>1. ~b.healthy /\ c.healthy => c.successes >= SuccessThreshold
    BY <1>1, RecordedFacts, PassiveConfig DEF UpTo, BackendState
  <2> QED BY <1>2, <1>3, <2>1 DEF IsHealthy
<1> QED BY <1>4, <1>5, <1>6, <1>7 DEF PassiveInv

LEMMA PassiveTickInv ==
    ASSUME PassiveInv, PassiveTick
    PROVE  PassiveInv' /\ \A v \in Urls : IsHealthy(v)' = IsHealthy(v)
<1>1. \A u \in Urls : backends'[u] = Older(backends[u]) /\ streak'[u] = streak[u]
  BY DEF PassiveTick
<1>2. \A u \in Urls : backends[u] \in BackendState
  BY DEF PassiveInv, PassiveTypeOK
<1>3. PassiveTypeOK'
  BY <1>2, OlderFacts DEF PassiveTick, PassiveTypeOK, PassiveInv
<1> QED
  BY <1>1, <1>2, <1>3, OlderFacts DEF PassiveInv, VerdictPrompt, IsHealthy

LEMMA PassiveStutterInv ==
    ASSUME PassiveInv, UNCHANGED passiveVars
    PROVE  PassiveInv' /\ \A v \in Urls : IsHealthy(v)' = IsHealthy(v)
BY DEF PassiveInv, PassiveTypeOK, VerdictPrompt, IsHealthy, passiveVars

(***************************************************************************)
(* Every reachable state of the checker is well typed, and no verdict is   *)
(* left unrevised once record_response has reached its threshold.          *)
(***************************************************************************)
THEOREM PassiveSafety == PassiveSpec => [](PassiveTypeOK /\ VerdictPrompt)
<1>1. PassiveInv /\ [PassiveNext]_passiveVars => PassiveInv'
  BY RecordResponseInv, PassiveTickInv, PassiveStutterInv DEF PassiveNext
<1>2. PassiveInv => PassiveTypeOK /\ VerdictPrompt
  BY DEF PassiveInv
<1> QED BY <1>1, <1>2, PassiveInitInv, PTL DEF PassiveSpec

(***************************************************************************)
(* record_response readmits an ejected backend only after                  *)
(* success_threshold consecutive successes that followed the ejection.     *)
(***************************************************************************)
THEOREM ReadmissionEarned == PassiveSpec => ReadmitEarned
<1> DEFINE Earned == \A u \in Urls :
        ~IsHealthy(u) /\ IsHealthy(u)' => streak'[u] >= SuccessThreshold
<1>1. PassiveInv /\ [PassiveNext]_passiveVars => PassiveInv'
  BY RecordResponseInv, PassiveTickInv, PassiveStutterInv DEF PassiveNext
<1>2. PassiveInv /\ [PassiveNext]_passiveVars => [Earned]_passiveVars
  BY RecordResponseInv, PassiveTickInv DEF PassiveNext
<1> QED BY <1>1, <1>2, PassiveInitInv, PTL DEF PassiveSpec, ReadmitEarned

(***************************************************************************)
(* Both together: for every threshold, window and set of backends,         *)
(* record_response changes a verdict at its threshold, not later and, for  *)
(* a readmission, not earlier.                                             *)
(***************************************************************************)
THEOREM PassiveDecides == PassiveSpec => ResponsesDecide
BY PassiveSafety, ReadmissionEarned, PTL DEF ResponsesDecide
-----------------------------------------------------------------------------
(* The request path                                                        *)

(* The server that a scan in state q looks at in iteration j. *)
At(q, j) == (q.start + j) % Size(q.svc)

(***************************************************************************)
(* A handler that is scanning has seen every index before its current one  *)
(* unhealthy, and a server in stable is flagged healthy now.               *)
(***************************************************************************)
ScanOKFor(r) ==
    /\ Scanning(r) =>
         /\ \A k \in stable[r] :
              k \in Indices(req[r].svc) /\ flag[req[r].gen][req[r].svc][k]
         /\ \A j \in 0 .. req[r].i - 1 : At(req[r], j) \notin stable[r]
    /\ Awaiting(r) /\ req[r].fallback => stable[r] = {}

ScanOK == \A r \in Requests : ScanOKFor(r)

(***************************************************************************)
(* For a tracked URL at most one change is pending, it is in the hands of  *)
(* a handler of this balancer and carries the current verdict; when none   *)
(* is, the flag is the verdict.                                            *)
(***************************************************************************)
TrackedOK(g, s, u) ==
    /\ u \in UrlsOf(s)
    /\ Pending(u) = {} => flag[g][s][FindServerIndex(s, u)] = IsHealthy(u)
    /\ \A r \in Pending(u) :
         /\ req[r].gen = g /\ req[r].svc = s
         /\ (req[r].change = "BecameHealthy") = IsHealthy(u)
    /\ \A r, o \in Pending(u) : r = o

TrackOK ==
    \A g \in 1 .. gen, s \in Services : \A u \in tracked[g][s] : TrackedOK(g, s, u)

(* A balancer that no reload has installed yet is as new. *)
FreshOK ==
    \A g \in Gens, s \in Services : g > gen => flag[g][s] = [i \in Indices(s) |-> TRUE]

Inv == TypeOK /\ PassiveInv /\ ScanOK /\ TrackOK /\ FreshOK

-----------------------------------------------------------------------------
(* Arithmetic modulo the number of servers, as the scan uses it. *)
LEMMA ModIndex ==
    ASSUME NEW n \in Nat \ {0}, NEW x \in Nat
    PROVE  x % n \in 0 .. n - 1
OBVIOUS

LEMMA ModWrap ==
    ASSUME NEW n \in Nat \ {0}, NEW x \in 0 .. n - 1, NEW j \in 0 .. n - 1
    PROVE  (x + j) % n = IF x + j < n THEN x + j ELSE x + j - n
<1>1. CASE x + j < n
  BY <1>1
<1>2. CASE n <= x + j /\ x + j < 2 * n
  BY <1>2
<1> QED BY <1>1, <1>2

(* The loop bounds of next_server reach every server from any start. *)
LEMMA ScanCovers ==
    ASSUME NEW n \in Nat \ {0}, NEW x \in 0 .. n - 1, NEW k \in 0 .. n - 1
    PROVE  \E j \in 0 .. n - 1 : (x + j) % n = k
<1> DEFINE j == IF x <= k THEN k - x ELSE k + n - x
<1>1. j \in 0 .. n - 1 /\ (IF x + j < n THEN x + j ELSE x + j - n) = k
  OBVIOUS
<1> HIDE DEF j
<1>2. (x + j) % n = k
  BY <1>1, ModWrap
<1> QED BY <1>1, <1>2, ZenonT(30)

(* A non-empty set of naturals has a least element. *)
LEMMA LeastNatural ==
    ASSUME NEW S \in SUBSET Nat, S # {}
    PROVE  \E m \in S : \A k \in S : m <= k
<1> DEFINE R == {ss \in Nat \X Nat : ss[1] < ss[2]}
<1>1. IsWellFoundedOn(R, Nat)
  BY NatLessThanWellFounded DEF OpToRel
<1>2. PICK m \in S : \A k \in S : ~(<<k, m>> \in R)
  BY <1>1, WFMin, ZenonT(30)
<1>3. ASSUME NEW k \in S PROVE m <= k
  <2>1. <<k, m>> \notin R
    BY <1>2
  <2>2. <<k, m>> \in Nat \X Nat
    OBVIOUS
  <2>3. ~(k < m)
    BY <2>1, <2>2
  <2> QED BY <2>3
<1> QED BY <1>3

LEMMA SizeType == ASSUME NEW s \in Services PROVE Size(s) \in Nat
BY ProxyConfig DEF Size

(* find_server_index of a listed URL is an index that holds it. *)
LEMMA FindServerIndexSpec ==
    ASSUME NEW s \in Services, NEW u \in UrlsOf(s)
    PROVE  /\ FindServerIndex(s, u) \in Indices(s)
           /\ Url(s, FindServerIndex(s, u)) = u
<1> DEFINE S == {i \in Indices(s) : Url(s, i) = u}
<1>1. S \in SUBSET Nat /\ S # {}
  BY SizeType DEF Indices, UrlsOf
<1>2. PICK m \in S : \A k \in S : m <= k
  BY <1>1, LeastNatural, ZenonT(30)
<1>3. \A j \in 0 .. m - 1 : Url(s, j) # u
  BY <1>1, <1>2, SizeType DEF Indices
<1>4. \E i \in Indices(s) : Url(s, i) = u /\ \A j \in 0 .. i - 1 : Url(s, j) # u
  BY <1>2, <1>3
<1> QED BY <1>4 DEF FindServerIndex

LEMMA UrlType ==
    ASSUME NEW s \in Services, NEW i \in Indices(s)
    PROVE  Url(s, i) \in Urls /\ Url(s, i) \in UrlsOf(s)
BY ProxyConfig DEF Url, UrlsOf, Indices, Size

-----------------------------------------------------------------------------
(* What the type invariant says of a handler in each of its phases. *)
LEMMA HandlerFacts ==
    ASSUME TypeOK, NEW r \in Requests
    PROVE  /\ Scanning(r) =>
                /\ req[r] \in ScanState /\ req[r].gen \in 1 .. gen
                /\ req[r].svc \in Services
                /\ req[r].start \in Indices(req[r].svc)
                /\ req[r].i \in Indices(req[r].svc)
           /\ Awaiting(r) =>
                /\ req[r] \in SentState /\ req[r].gen \in 1 .. gen
                /\ req[r].svc \in Services
                /\ req[r].idx \in Indices(req[r].svc)
           /\ Applying(r) =>
                /\ req[r] \in ApplyState /\ req[r].gen \in 1 .. gen
                /\ req[r].svc \in Services
                /\ req[r].idx \in Indices(req[r].svc)
           /\ req[r].pc = "idle" => req[r] = Idle
           /\ req[r].pc # "idle" => req[r].gen \in 1 .. gen
<1>1. req[r] \in RequestState /\ InRange(req[r], gen) /\ gen \in Gens
  BY DEF TypeOK
<1>2. CASE req[r] = Idle
  BY <1>2, SMTT(60) DEF Idle, Scanning, Awaiting, Applying
<1>3. CASE req[r] \in ScanState
  BY <1>1, <1>3, ProxyConfig, SMTT(60) DEF ScanState, InRange, Gens, Scanning, Awaiting, Applying
<1>4. CASE req[r] \in SentState
  BY <1>1, <1>4, ProxyConfig, SMTT(60) DEF SentState, InRange, Gens, Scanning, Awaiting, Applying
<1>5. CASE req[r] \in ApplyState
  BY <1>1, <1>5, ProxyConfig DEF ApplyState, InRange, Gens, Scanning, Awaiting, Applying
<1> QED BY <1>1, <1>2, <1>3, <1>4, <1>5, ZenonT(30) DEF RequestState

(* Generations up to the current one are generations; the next one is none of them. *)
LEMMA GenFacts ==
    ASSUME TypeOK
    PROVE  /\ \A g \in 1 .. gen : g \in Gens /\ g <= gen /\ g <= gen + 1 /\ g # gen + 1
           /\ \A g \in 1 .. gen : \A h \in Gens : h > gen => h # g
BY ProxyConfig DEF TypeOK, Gens

LEMMA SentFields == ASSUME NEW q \in SentState PROVE q.gen \in Gens /\ q.idx \in Nat
BY DEF SentState

LEMMA LastIndex ==
    ASSUME NEW n \in Nat \ {0}, NEW i \in 0 .. n - 1, ~(i + 1 < n)
    PROVE  i = n - 1
OBVIOUS

(* A handler that has become idle satisfies its part of ScanOK. *)
LEMMA IdleScan == ASSUME NEW r, req'[r] = Idle PROVE ScanOKFor(r)'
BY DEF ScanOKFor, Scanning, Awaiting, Idle

(* ... and has no change to apply. *)
LEMMA IdlePending ==
    ASSUME NEW r \in Requests, NEW v, req'[r] = Idle,
           \A o \in Requests \ {r} : req'[o] = req[o]
    PROVE  Pending(v)' = Pending(v) \ {r}
<1>1. ~Applying(r)'
  BY DEF Applying, Idle
<1>2. ASSUME NEW o \in Requests \ {r} PROVE o \in Pending(v)' <=> o \in Pending(v)
  BY DEF Pending, Applying, UrlOf
<1> QED BY <1>1, <1>2 DEF Pending

(* StillTracked only removes URLs. *)
LEMMA StillTrackedType ==
    ASSUME TypeOK, NEW r, NEW u, NEW c
    PROVE  StillTracked(r, u, c) \in [Gens -> [Services -> SUBSET Urls]]
<1>1. ASSUME NEW g \in Gens, NEW s \in Services PROVE tracked[g][s] \subseteq Urls
  BY DEF TypeOK
<1> QED BY <1>1 DEF StillTracked

LEMMA IdleInRange == ASSUME NEW g PROVE InRange(Idle, g)
BY DEF InRange, Idle

LEMMA InitInv == Init => Inv
<1> SUFFICES ASSUME Init PROVE Inv
  OBVIOUS
<1>1. \A r \in Requests : req[r] = Idle /\ stable[r] = {}
  BY DEF Init
<1>2. \A g \in Gens, s \in Services :
        /\ flag[g][s] = [i \in Indices(s) |-> TRUE]
        /\ counter[g][s] = 0
        /\ tracked[g][s] = UrlsOf(s)
  BY DEF Init, NewFlags, NewCounters
<1>3. PassiveInv /\ \A u \in Urls : IsHealthy(u)
  BY PassiveInitInv DEF Init, PassiveInit, IsHealthy, NewBackend
<1>4. TypeOK
  <2>1. gen \in Gens /\ PassiveTypeOK
    BY <1>3, ProxyConfig, SMTT(60) DEF Init, Gens, PassiveInv
  <2>2. \A g \in Gens, s \in Services : flag[g][s] \in [Indices(s) -> BOOLEAN]
    BY <1>2, ZenonT(60)
  <2>3. flag \in [Gens -> [Services -> UNION {[Indices(s) -> BOOLEAN] : s \in Services}]]
    BY <2>2 DEF Init, NewFlags
  <2>4. counter \in [Gens -> [Services -> Nat]]
    BY DEF Init, NewCounters
  <2>5. \A g \in Gens, s \in Services : Size(s) > 0 => counter[g][s] < Size(s)
    BY <1>2, ZenonT(30)
  <2>6. \A r \in Requests : InRange(req[r], gen)
    BY <1>1 DEF InRange, Idle
  <2>7. req \in [Requests -> RequestState] /\ stable \in [Requests -> SUBSET Nat]
    BY DEF Init, RequestState
  <2>8. tracked \in [Gens -> [Services -> SUBSET Urls]]
    BY UrlType, ZenonT(60) DEF Init, UrlsOf
  <2> QED BY <2>1, <2>2, <2>3, <2>4, <2>5, <2>6, <2>7, <2>8, ZenonT(30) DEF TypeOK
<1>5. ScanOK
  BY <1>1 DEF ScanOK, ScanOKFor, Scanning, Awaiting, Idle
<1>6. TrackOK
  <2>1. \A u : Pending(u) = {}
    BY <1>1 DEF Pending, Applying, Idle
  <2>2. 1 .. gen \subseteq Gens
    BY <1>4, ProxyConfig DEF TypeOK, Gens
  <2> SUFFICES ASSUME NEW g \in 1 .. gen, NEW s \in Services, NEW u \in tracked[g][s]
               PROVE  TrackedOK(g, s, u)
    BY DEF TrackOK
  <2>5. g \in Gens
    BY <2>2
  <2>3. u \in UrlsOf(s) /\ u \in Urls
    <3>1. u \in UrlsOf(s)
      BY <1>2, <2>5, ZenonT(30)
    <3> QED BY <3>1, UrlType DEF UrlsOf
  <2>4. flag[g][s][FindServerIndex(s, u)] = TRUE
    <3>1. FindServerIndex(s, u) \in Indices(s)
      BY <2>3, FindServerIndexSpec, ZenonT(30)
    <3> QED BY <1>2, <2>5, <3>1, ZenonT(30)
  <2> QED BY <1>3, <2>1, <2>3, <2>4, ZenonT(30) DEF TrackedOK
<1> QED BY <1>2, <1>3, <1>4, <1>5, <1>6 DEF Inv, FreshOK

-----------------------------------------------------------------------------
LEMMA TrackedUrl ==
    ASSUME TypeOK, NEW g \in 1 .. gen, NEW s \in Services, NEW u \in tracked[g][s]
    PROVE  g \in Gens /\ u \in Urls
<1>1. g \in Gens
  BY ProxyConfig, SMTT(60) DEF TypeOK, Gens
<1>2. tracked[g][s] \in SUBSET Urls
  BY <1>1, ZenonT(60) DEF TypeOK
<1> QED BY <1>1, <1>2

(* A handler that no step touched keeps its part of ScanOK. *)
LEMMA ScanFrame ==
    ASSUME ScanOK, NEW o \in Requests,
           req'[o] = req[o], stable'[o] = stable[o], UNCHANGED flag
    PROVE  ScanOKFor(o)'
BY ZenonT(30) DEF ScanOK, ScanOKFor, Scanning, Awaiting

(* A step of one handler that neither records nor applies a change. *)
LEMMA TrackFrame ==
    ASSUME TypeOK, TrackOK, NEW r \in Requests,
           ~Applying(r), req'[r].pc # "apply",
           \A o \in Requests \ {r} : req'[o] = req[o],
           UNCHANGED <<gen, flag, tracked>>,
           \A u \in Urls : IsHealthy(u)' = IsHealthy(u)
    PROVE  TrackOK'
<1> SUFFICES ASSUME NEW g \in 1 .. gen, NEW s \in Services, NEW u \in tracked[g][s]
             PROVE  TrackedOK(g, s, u)'
  BY DEF TrackOK
<1>1. \A o \in Requests : o \in Pending(u)' <=> o \in Pending(u)
  BY DEF Pending, Applying, UrlOf
<1>2. Pending(u)' = Pending(u) /\ r \notin Pending(u)
  BY <1>1 DEF Pending
<1>3. \A o \in Pending(u) : req'[o] = req[o]
  BY <1>2 DEF Pending
<1>4. IsHealthy(u)' = IsHealthy(u)
  BY TrackedUrl
<1>5. TrackedOK(g, s, u)
  BY DEF TrackOK
<1> QED BY <1>2, <1>3, <1>4, <1>5, ZenonT(60) DEF TrackedOK

(* Begin: the handler starts its scan in the current balancer. *)
LEMMA BeginInv ==
    ASSUME Inv, NEW r \in Requests, NEW s \in Services, Begin(r, s)
    PROVE  Inv'
<1> DEFINE q == [pc |-> "scan", gen |-> gen, svc |-> s,
                 start |-> counter[gen][s], i |-> 0]
           up == {i \in Indices(s) : flag[gen][s][i]}
<1>1. /\ gen \in Gens /\ counter[gen][s] \in Nat /\ counter[gen][s] < Size(s)
      /\ Size(s) \in Nat \ {0}
  BY SizeType, SMTT(60) DEF Inv, TypeOK, Begin
<1>2. /\ req'[r] = q /\ \A o \in Requests \ {r} : req'[o] = req[o]
      /\ stable'[r] = up /\ \A o \in Requests \ {r} : stable'[o] = stable[o]
  BY ZenonT(30) DEF Begin, Inv, TypeOK
<1>3. q \in ScanState /\ up \in SUBSET Nat
  BY <1>1, SMTT(60) DEF ScanState, Indices
<1>4. counter' \in [Gens -> [Services -> Nat]]
      /\ \A g \in Gens, t \in Services : Size(t) > 0 => counter'[g][t] < Size(t)
  <2> DEFINE c == (counter[gen][s] + 1) % Size(s)
  <2>1. c \in 0 .. Size(s) - 1
    <3> DEFINE n == Size(s)
               x == counter[gen][s] + 1
    <3>1. n \in Nat \ {0} /\ x \in Nat
      BY <1>1
    <3> HIDE DEF n, x
    <3>2. x % n \in 0 .. n - 1
      BY <3>1, ModIndex
    <3> QED BY <3>2, ZenonT(30) DEF n, x
  <2>2. counter' = [counter EXCEPT ![gen][s] = c]
    BY DEF Begin
  <2>3. c \in Nat /\ c < Size(s)
    BY <1>1, <2>1, SMTT(60)
  <2> HIDE DEF c
  <2> QED BY <1>1, <2>2, <2>3, ZenonT(30) DEF Inv, TypeOK
<1>5. InRange(q, gen)
  <2>1. counter[gen][s] \in Indices(s) /\ 0 \in Indices(s)
    BY <1>1, SMTT(60) DEF Indices
  <2> QED BY <1>1, <2>1, SMTT(60) DEF InRange, Gens
<1>6. PassiveInv'
  BY PassiveStutterInv, ZenonT(30) DEF Begin, Inv
<1>7. TypeOK'
  <2>1. req' \in [Requests -> RequestState] /\ stable' \in [Requests -> SUBSET Nat]
    BY <1>2, <1>3, ZenonT(30) DEF Inv, TypeOK, Begin, RequestState
  <2>2. \A o \in Requests : InRange(req'[o], gen')
    BY <1>2, <1>5 DEF Inv, TypeOK, Begin
  <2> QED BY <1>4, <1>6, <2>1, <2>2, ZenonT(30) DEF Inv, TypeOK, PassiveInv, Begin
<1>8. ScanOK'
  <2>1. ScanOKFor(r)'
    BY <1>2, SMTT(60) DEF ScanOKFor, Scanning, Awaiting, Begin
  <2>2. \A o \in Requests \ {r} : ScanOKFor(o)'
    BY <1>2, ScanFrame, ZenonT(30) DEF Begin, Inv
  <2> QED BY <2>1, <2>2, ZenonT(30) DEF ScanOK
<1>9. TrackOK'
  BY <1>2, TrackFrame DEF Begin, Inv, Applying, passiveVars, IsHealthy
<1> QED BY <1>6, <1>7, <1>8, <1>9, ZenonT(30) DEF Inv, FreshOK, Begin

(* Probe: one flag is read; the scan goes on, ends with it, or gives up. *)
LEMMA ProbeInv ==
    ASSUME Inv, NEW r \in Requests, Probe(r)
    PROVE  Inv'
<1> DEFINE q == req[r]
           n == Size(q.svc)
           k == (q.start + q.i) % n
           Sent(i, f) == [pc |-> "sent", gen |-> q.gen, svc |-> q.svc,
                          idx |-> i, fallback |-> f]
<1>1. /\ q \in ScanState /\ q.gen \in 1 .. gen /\ q.svc \in Services
      /\ q.start \in Indices(q.svc) /\ q.i \in Indices(q.svc)
  BY HandlerFacts, ZenonT(30) DEF Inv, Probe
<1>2. n \in Nat \ {0} /\ q.start \in 0 .. n - 1 /\ q.i \in 0 .. n - 1
  BY <1>1, SizeType, SMTT(60) DEF Indices
<1>3. k \in Indices(q.svc) /\ q.start % n \in Indices(q.svc)
  <2>1. \A x \in Nat : x % n \in 0 .. n - 1
    <3> HIDE DEF n
    <3> QED BY <1>2, ModIndex, ZenonT(30)
  <2>2. q.start + q.i \in Nat /\ q.start \in Nat
    BY <1>2, SMTT(60)
  <2> HIDE DEF n
  <2>3. k \in 0 .. n - 1 /\ q.start % n \in 0 .. n - 1
    BY <2>1, <2>2, ZenonT(30)
  <2> QED BY <2>3 DEF n, Indices
<1>4. ScanOKFor(r) /\ Scanning(r)
  BY ZenonT(30) DEF Inv, ScanOK, Probe
<1>5. /\ \A o \in Requests \ {r} : req'[o] = req[o]
      /\ UNCHANGED <<passiveVars, gen, flag, counter, stable, tracked>>
  BY ZenonT(30) DEF Probe, Send, balancerVars, Inv, TypeOK
<1>6. /\ req'[r] \in ScanState \cup SentState /\ InRange(req'[r], gen)
      /\ req'[r].pc # "apply" /\ ScanOKFor(r)'
  <2> DEFINE d == q.start % n
  <2>1. /\ \A m \in stable[r] : m \in Indices(q.svc) /\ flag[q.gen][q.svc][m]
        /\ \A j \in 0 .. q.i - 1 : At(q, j) \notin stable[r]
    BY <1>4, ZenonT(30) DEF ScanOKFor
  <2>2. k = At(q, q.i) /\ d \in Indices(q.svc)
    BY <1>3 DEF At
  <2>3. \A m \in 0 .. n - 1 : \E j \in 0 .. n - 1 : At(q, j) = m
    BY <1>2, ScanCovers, ZenonT(30) DEF At
  <2>4. \/ flag[q.gen][q.svc][k] /\ req'[r] = Sent(k, FALSE)
        \/ /\ ~flag[q.gen][q.svc][k] /\ q.i + 1 < n
           /\ req'[r] = [q EXCEPT !.i = q.i + 1]
        \/ /\ ~flag[q.gen][q.svc][k] /\ ~(q.i + 1 < n)
           /\ req'[r] = Sent(d, TRUE)
    <3>1. ASSUME flag[q.gen][q.svc][k] PROVE req'[r] = Sent(k, FALSE)
      BY <3>1, ZenonT(30) DEF Probe, Candidate, Send, Inv, TypeOK
    <3>2. ASSUME ~flag[q.gen][q.svc][k], q.i + 1 < n
          PROVE  req'[r] = [q EXCEPT !.i = q.i + 1]
      BY <3>2, ZenonT(30) DEF Probe, Candidate, Inv, TypeOK
    <3>3. ASSUME ~flag[q.gen][q.svc][k], ~(q.i + 1 < n)
          PROVE  req'[r] = Sent(d, TRUE)
      BY <3>3 DEF Probe, Candidate, Send, Inv, TypeOK
    <3> QED BY <3>1, <3>2, <3>3, ZenonT(30)
  <2>5. stable'[r] = stable[r] /\ flag' = flag
    BY <1>5, ZenonT(30)
  <2> HIDE DEF k, d
  <2>6. ASSUME ~flag[q.gen][q.svc][k] PROVE \A j \in 0 .. q.i : At(q, j) \notin stable[r]
    <3>1. k \notin stable[r]
      BY <2>1, <2>6
    <3>2. \A j \in 0 .. q.i : j \in 0 .. q.i - 1 \/ j = q.i
      BY <1>2, SMTT(60)
    <3> QED BY <2>1, <2>2, <3>1, <3>2, ZenonT(30)
  <2>7. ASSUME NEW x \in Indices(q.svc)
        PROVE  Sent(x, FALSE) \in SentState /\ Sent(x, TRUE) \in SentState
    BY <1>1, SMTT(60) DEF ScanState, SentState, Indices
  <2>8. ASSUME NEW x \in Indices(q.svc), NEW f \in BOOLEAN, req'[r] = Sent(x, f),
               f => stable[r] = {}
        PROVE  /\ req'[r] \in ScanState \cup SentState /\ InRange(req'[r], gen)
               /\ req'[r].pc # "apply" /\ ScanOKFor(r)'
    <3>1. /\ req'[r].pc = "sent" /\ req'[r].gen = q.gen /\ req'[r].svc = q.svc
          /\ req'[r].idx = x /\ req'[r].fallback = f
      BY <2>8, SMTT(60)
    <3>2. InRange(req'[r], gen)
      BY <1>1, <2>8, <3>1, SMTT(60) DEF InRange
    <3>3. ScanOKFor(r)'
      BY <2>5, <2>8, <3>1, ZenonT(30) DEF ScanOKFor, Scanning, Awaiting
    <3>4. req'[r] \in SentState
      BY <2>7, <2>8, ZenonT(30)
    <3> HIDE DEF q, Sent
    <3> QED BY <3>1, <3>2, <3>3, <3>4, ZenonT(30)
  <2>9. CASE flag[q.gen][q.svc][k] /\ req'[r] = Sent(k, FALSE)
    BY <1>3, <2>8, <2>9, ZenonT(30)
  <2>10. CASE /\ ~flag[q.gen][q.svc][k] /\ q.i + 1 < n
              /\ req'[r] = [q EXCEPT !.i = q.i + 1]
    <3>1. /\ req'[r] \in ScanState /\ req'[r].gen = q.gen /\ req'[r].svc = q.svc
          /\ req'[r].start = q.start /\ req'[r].i = q.i + 1 /\ req'[r].pc = "scan"
      BY <1>1, <2>10, SMTT(60) DEF ScanState
    <3>2. InRange(req'[r], gen)
      BY <1>1, <1>2, <2>10, <3>1, SMTT(60) DEF InRange, Indices
    <3>3. \A j \in 0 .. req'[r].i - 1 : At(q, j) \notin stable[r]
      <4>1. req'[r].i - 1 = q.i
        BY <1>2, <3>1, SMTT(60)
      <4> QED BY <2>6, <2>10, <4>1, ZenonT(30)
    <3>4. ScanOKFor(r)'
      <4>1. ~Awaiting(r)'
        BY <3>1 DEF Awaiting
      <4>2. \A j : At(req'[r], j) = At(q, j)
        BY <3>1, ZenonT(30) DEF At
      <4> HIDE DEF q
      <4> QED BY <2>1, <2>5, <3>1, <3>3, <4>1, <4>2, ZenonT(30) DEF ScanOKFor
    <3> HIDE DEF q
    <3> QED BY <3>1, <3>2, <3>4, ZenonT(30)
  <2>11. CASE /\ ~flag[q.gen][q.svc][k] /\ ~(q.i + 1 < n)
              /\ req'[r] = Sent(d, TRUE)
    <3>1. q.i = n - 1
      BY <1>2, <2>11, LastIndex, ZenonT(30)
    <3>2. stable[r] \subseteq 0 .. n - 1
      BY <2>1, ZenonT(30) DEF Indices
    <3>3. stable[r] = {}
      BY <2>3, <2>6, <2>11, <3>1, <3>2, ZenonT(30)
    <3> QED BY <2>2, <2>8, <2>11, <3>3, ZenonT(30)
  <2> QED BY <2>4, <2>9, <2>10, <2>11, ZenonT(30)
<1>7. PassiveInv'
  BY <1>5, PassiveStutterInv, ZenonT(30) DEF Inv
<1>8. TypeOK'
  <2>1. req' \in [Requests -> RequestState]
    <3>1. DOMAIN req' = Requests /\ req' = [o \in Requests |-> req'[o]]
      BY ZenonT(30) DEF Probe, Send, Inv, TypeOK
    <3> QED BY <1>5, <1>6, <3>1, ZenonT(30) DEF Inv, TypeOK, RequestState
  <2>2. \A o \in Requests : InRange(req'[o], gen')
    BY <1>5, <1>6, ZenonT(30) DEF Inv, TypeOK
  <2> QED BY <1>5, <1>7, <2>1, <2>2, ZenonT(30) DEF Inv, TypeOK, PassiveInv
<1>9. ScanOK'
  BY <1>5, <1>6, ScanFrame DEF ScanOK, Inv
<1>10. TrackOK'
  BY <1>4, <1>5, <1>6, TrackFrame, ZenonT(30) DEF Inv, Applying, Scanning, passiveVars, IsHealthy
<1> QED BY <1>5, <1>7, <1>8, <1>9, <1>10, ZenonT(30) DEF Inv, FreshOK

(* Abandon: the handler goes away and nobody learns of the outcome. *)
LEMMA AbandonInv ==
    ASSUME Inv, NEW r \in Requests, Abandon(r)
    PROVE  Inv'
<1>1. /\ req'[r] = Idle /\ \A o \in Requests \ {r} : req'[o] = req[o]
      /\ stable'[r] = {} /\ \A o \in Requests \ {r} : stable'[o] = stable[o]
      /\ UNCHANGED <<passiveVars, gen, flag, counter, tracked>>
  BY ZenonT(30) DEF Abandon, balancerVars, Inv, TypeOK
<1>2. PassiveInv'
  BY <1>1, PassiveStutterInv, ZenonT(30) DEF Inv
<1>3. TypeOK'
  <2>1. req' \in [Requests -> RequestState] /\ stable' \in [Requests -> SUBSET Nat]
    BY ZenonT(30) DEF Abandon, Inv, TypeOK, RequestState
  <2>2. \A o \in Requests : InRange(req'[o], gen')
    BY <1>1, IdleInRange, ZenonT(30) DEF Inv, TypeOK
  <2> QED BY <1>1, <1>2, <2>1, <2>2, ZenonT(30) DEF Inv, TypeOK, PassiveInv
<1>4. ScanOK'
  <2>1. ScanOKFor(r)'
    BY <1>1, ZenonT(30) DEF ScanOKFor, Scanning, Awaiting, Idle
  <2> QED BY <1>1, <2>1, ScanFrame DEF ScanOK, Inv
<1>5. TrackOK'
  BY <1>1, TrackFrame, SMTT(60) DEF Inv, Abandon, Applying, Awaiting, passiveVars, IsHealthy, Idle
<1> QED BY <1>1, <1>2, <1>3, <1>4, <1>5, ZenonT(30) DEF Inv, FreshOK

(* A step that changes no verdict, no balancer and no handler. *)
LEMMA QuietInv ==
    ASSUME Inv, PassiveInv', \A u \in Urls : IsHealthy(u)' = IsHealthy(u),
           UNCHANGED <<gen, flag, counter, req, stable, tracked>>
    PROVE  Inv'
<1>1. TypeOK'
  BY ZenonT(30) DEF Inv, TypeOK, PassiveInv
<1>2. ScanOK' /\ FreshOK'
  BY ZenonT(30) DEF Inv, ScanOK, ScanOKFor, FreshOK, Scanning, Awaiting
<1>3. TrackOK'
  <2> SUFFICES ASSUME NEW g \in 1 .. gen, NEW s \in Services, NEW u \in tracked[g][s]
               PROVE  TrackedOK(g, s, u)'
    BY ZenonT(30) DEF TrackOK
  <2>1. Pending(u)' = Pending(u)
    BY DEF Pending, Applying, UrlOf
  <2>2. u \in Urls
    BY TrackedUrl, ZenonT(30) DEF Inv
  <2>3. TrackedOK(g, s, u)
    BY ZenonT(30) DEF Inv, TrackOK
  <2> QED BY <2>1, <2>2, <2>3, ZenonT(30) DEF TrackedOK
<1> QED BY <1>1, <1>2, <1>3, ZenonT(30) DEF Inv

(* Time passes. *)
LEMMA TickInv ==
    ASSUME Inv, Tick
    PROVE  Inv'
<1>1. PassiveInv' /\ \A u \in Urls : IsHealthy(u)' = IsHealthy(u)
  BY PassiveTickInv DEF Tick, Inv
<1>2. UNCHANGED <<gen, flag, counter, req, stable, tracked>>
  BY DEF Tick, balancerVars
<1> QED BY <1>1, <1>2, QuietInv

(* Reload: a balancer with every flag up joins a checker that may disagree. *)
LEMMA ReloadInv ==
    ASSUME Inv, Reload
    PROVE  Inv'
<1>1. /\ gen \in Gens /\ gen' = gen + 1 /\ gen' \in Gens
      /\ UNCHANGED <<passiveVars, flag, counter, req, stable>>
  BY ProxyConfig, SMTT(60) DEF Reload, Inv, TypeOK, Gens
<1> DEFINE fresh == [s \in Services |-> {u \in UrlsOf(s) : IsHealthy(u) /\ Pending(u) = {}}]
<1>2. tracked' = [tracked EXCEPT ![gen + 1] = fresh]
  BY DEF Reload
<1>3. PassiveInv' /\ \A u \in Urls : IsHealthy(u)' = IsHealthy(u)
  BY <1>1, PassiveStutterInv, ZenonT(30) DEF Inv
<1>4. TypeOK'
  <2>1. fresh \in [Services -> SUBSET Urls]
    BY UrlType, ZenonT(30) DEF UrlsOf
  <2> HIDE DEF fresh
  <2>2. tracked' \in [Gens -> [Services -> SUBSET Urls]]
    BY <1>1, <1>2, <2>1, ZenonT(30) DEF Inv, TypeOK
  <2>3. \A o \in Requests : InRange(req'[o], gen')
    <3> SUFFICES ASSUME NEW o \in Requests PROVE InRange(req[o], gen + 1)
      BY <1>1, ZenonT(30)
    <3>1. req[o].pc # "idle" => req[o].gen \in 1 .. gen
      BY HandlerFacts, ZenonT(30) DEF Inv
    <3>2. InRange(req[o], gen)
      BY DEF Inv, TypeOK
    <3>3. \A x \in 1 .. gen : x <= gen + 1
      BY GenFacts, ZenonT(30) DEF Inv
    <3> QED BY <3>1, <3>2, <3>3 DEF InRange
  <2> QED BY <1>1, <1>3, <2>2, <2>3, ZenonT(30) DEF Inv, TypeOK, PassiveInv
<1>5. ScanOK' /\ FreshOK'
  BY <1>1, SMTT(60) DEF Inv, ScanOK, ScanOKFor, FreshOK, Scanning, Awaiting, Gens
<1>6. TrackOK'
  <2>1. \A u : Pending(u)' = Pending(u)
    BY <1>1 DEF Pending, Applying, UrlOf
  <2> SUFFICES ASSUME NEW g \in 1 .. gen + 1, NEW s \in Services, NEW u \in tracked'[g][s]
               PROVE  TrackedOK(g, s, u)'
    BY <1>1, ZenonT(30) DEF TrackOK
  <2>2. CASE g = gen + 1
    <3>1. u \in UrlsOf(s) /\ IsHealthy(u) /\ Pending(u) = {}
      BY <1>1, <1>2, <2>2 DEF Inv, TypeOK
    <3>2. FindServerIndex(s, u) \in Indices(s) /\ u \in Urls
      BY <3>1, FindServerIndexSpec, UrlType, ZenonT(30) DEF UrlsOf
    <3>3. flag[g][s] = [i \in Indices(s) |-> TRUE]
      BY <1>1, <2>2, SMTT(60) DEF Inv, FreshOK, Gens
    <3>4. flag'[g][s][FindServerIndex(s, u)] = TRUE /\ IsHealthy(u)'
      BY <1>1, <1>3, <3>1, <3>2, <3>3, ZenonT(30)
    <3>5. IsHealthy(u)' = TRUE
      BY <1>3, <3>2, <3>4, ZenonT(30) DEF PassiveInv, PassiveTypeOK, IsHealthy, BackendState
    <3> QED BY <2>1, <3>1, <3>4, <3>5, ZenonT(30) DEF TrackedOK
  <2>3. CASE g \in 1 .. gen
    <3>3. g \in Gens /\ g # gen + 1
      BY <2>3, GenFacts, ZenonT(30) DEF Inv
    <3>1. u \in tracked[g][s] /\ u \in Urls
      BY <1>1, <1>2, <2>3, <3>3, TrackedUrl, ZenonT(30) DEF Inv, TypeOK
    <3>2. TrackedOK(g, s, u)
      BY <2>3, <3>1, ZenonT(30) DEF Inv, TrackOK
    <3> QED BY <1>1, <1>3, <2>1, <3>1, <3>2, ZenonT(30) DEF TrackedOK
  <2> QED BY <1>1, <2>2, <2>3, SMTT(60) DEF Gens
<1> QED BY <1>3, <1>4, <1>5, <1>6, ZenonT(30) DEF Inv

(***************************************************************************)
(* Respond: the outcome is recorded.  If the verdict of u changes, every   *)
(* balancer but the handler's own loses track of u, and so does this one   *)
(* if another change of u was on its way.                                  *)
(***************************************************************************)
LEMMA RespondInv ==
    ASSUME Inv, NEW r \in Requests, NEW failed \in BOOLEAN, Respond(r, failed)
    PROVE  Inv'
<1> DEFINE q == req[r]
<1>1. /\ q \in SentState /\ q.gen \in 1 .. gen /\ q.svc \in Services
      /\ q.idx \in Indices(q.svc) /\ q.pc = "sent"
  BY HandlerFacts, ZenonT(30) DEF Inv, Respond, Awaiting
<1>2. PICK u \in Urls : u = UrlOf(r) /\ u \in UrlsOf(q.svc)
  BY <1>1, UrlType, ZenonT(30) DEF UrlOf
<1> DEFINE c == ChangeOf(backends[u], Recorded(backends[u], failed))
           p == [pc |-> "apply", gen |-> q.gen, svc |-> q.svc,
                 idx |-> q.idx, change |-> c]
<1>3. /\ PassiveInv' /\ backends'[u] = Recorded(backends[u], failed)
      /\ \A v \in Urls \ {u} : backends'[v] = backends[v]
      /\ \A v \in Urls : IsHealthy(v) \in BOOLEAN /\ IsHealthy(v)' \in BOOLEAN
  <2>1. RecordResponse(u, failed)
    BY <1>2 DEF Respond
  <2>2. PassiveInv'
    BY <1>2, <2>1, RecordResponseInv, ZenonT(30) DEF Inv
  <2> QED BY <1>2, <2>1, <2>2, ZenonT(30)
          DEF RecordResponse, Inv, PassiveInv, PassiveTypeOK, IsHealthy, BackendState
<1>4. /\ c = "NoChange" => IsHealthy(u)' = IsHealthy(u)
      /\ c # "NoChange" => c \in {"BecameHealthy", "BecameUnhealthy"}
      /\ c # "NoChange" => (c = "BecameHealthy") = IsHealthy(u)'
  BY <1>2, <1>3, ZenonT(30) DEF ChangeOf, IsHealthy
<1>5. /\ req'[r] = IF c = "NoChange" THEN Idle ELSE p
      /\ \A o \in Requests \ {r} : req'[o] = req[o]
      /\ stable'[r] = {} /\ \A o \in Requests \ {r} : stable'[o] = stable[o]
      /\ UNCHANGED <<gen, flag, counter>>
      /\ tracked' = StillTracked(r, u, c)
  BY <1>2, ZenonT(30) DEF Respond, balancerVars, Inv, TypeOK
<1> HIDE DEF c
<1>6. c # "NoChange" => p \in ApplyState /\ InRange(p, gen)
  <2>1. q.gen \in Gens /\ q.gen <= gen /\ q.idx \in Nat
    BY <1>1, GenFacts, SentFields, ZenonT(30) DEF Inv
  <2> QED BY <1>1, <1>4, <2>1, ZenonT(30) DEF ApplyState, InRange
<1>7. TypeOK'
  <2>1. req' \in [Requests -> RequestState]
    <3>1. req' = [o \in Requests |-> req'[o]]
      BY ZenonT(30) DEF Respond, Inv, TypeOK
    <3> HIDE DEF p
    <3> QED BY <1>5, <1>6, <3>1, ZenonT(30) DEF Inv, TypeOK, RequestState
  <2>2. stable' \in [Requests -> SUBSET Nat]
    BY DEF Respond, Inv, TypeOK
  <2>3. \A o \in Requests : InRange(req'[o], gen')
    BY <1>5, <1>6, IdleInRange, ZenonT(30) DEF Inv, TypeOK
  <2>4. tracked' \in [Gens -> [Services -> SUBSET Urls]]
    BY <1>5, StillTrackedType, ZenonT(30) DEF Inv
  <2> QED BY <1>3, <1>5, <2>1, <2>2, <2>3, <2>4, ZenonT(30) DEF Inv, TypeOK, PassiveInv
<1>8. ScanOK' /\ FreshOK'
  <2>1. ScanOKFor(r)'
    BY <1>5, ZenonT(30) DEF ScanOKFor, Scanning, Awaiting, Idle
  <2> QED BY <1>5, <2>1, ScanFrame, ZenonT(30) DEF ScanOK, FreshOK, Inv
<1>9. TrackOK'
  <2>1. CASE c = "NoChange"
    <3>1. \A v \in Urls : IsHealthy(v)' = IsHealthy(v)
      BY <1>3, <1>4, <2>1, ZenonT(30) DEF IsHealthy
    <3>2. tracked' = tracked
      BY <1>5, <2>1, ZenonT(30) DEF StillTracked, Inv, TypeOK
    <3>3. req'[r].pc # "apply" /\ ~Applying(r)
      <4> HIDE DEF p
      <4>1. req'[r] = Idle
        BY <1>5, <2>1, ZenonT(30)
      <4>2. Idle.pc # "apply"
        BY ZenonT(30) DEF Idle
      <4>3. ~Applying(r)
        BY <1>1, ZenonT(30) DEF Applying
      <4> QED BY <4>1, <4>2, <4>3, ZenonT(30)
    <3> QED BY <1>5, <3>1, <3>2, <3>3, TrackFrame, ZenonT(30) DEF Inv
  <2>2. CASE c # "NoChange"
    <3> SUFFICES ASSUME NEW g \in 1 .. gen, NEW s \in Services, NEW v \in tracked'[g][s]
                 PROVE  TrackedOK(g, s, v)'
      BY <1>5, ZenonT(30) DEF TrackOK
    <3>1. g \in Gens
      BY GenFacts, ZenonT(30) DEF Inv
    <3>2. /\ v \in tracked[g][s]
          /\ v = u => g = q.gen /\ s = q.svc /\ Pending(u) = {}
      BY <1>5, <2>2, <3>1, ZenonT(30) DEF StillTracked
    <3>3. v \in Urls /\ TrackedOK(g, s, v)
      BY <3>2, TrackedUrl, ZenonT(30) DEF Inv, TrackOK
    <3>4. /\ req'[r].pc = "apply" /\ req'[r].gen = q.gen /\ req'[r].svc = q.svc
          /\ req'[r].idx = q.idx /\ req'[r].change = c
      <4>1. req'[r] = p
        BY <1>5, <2>2, ZenonT(30)
      <4> QED BY <4>1
    <3>5. Pending(v)' = IF v = u THEN Pending(v) \cup {r} ELSE Pending(v)
      BY <1>1, <1>2, <1>5, <3>4, ZenonT(60) DEF Pending, Applying, UrlOf
    <3>6. CASE v = u
      <4>1. Pending(v)' = {r}
        BY <3>2, <3>5, <3>6, ZenonT(30)
      <4> QED BY <1>2, <1>4, <2>2, <3>2, <3>4, <3>6, <4>1, ZenonT(30) DEF TrackedOK
    <3>7. CASE v # u
      <4>1. Pending(v)' = Pending(v) /\ IsHealthy(v)' = IsHealthy(v)
        BY <1>3, <3>3, <3>5, <3>7, ZenonT(30) DEF IsHealthy
      <4>2. \A o \in Pending(v) : req'[o] = req[o]
        BY <1>1, <1>5, ZenonT(30) DEF Pending, Applying
      <4>3. UNCHANGED flag
        BY <1>5, ZenonT(30)
      <4> QED BY <3>3, <4>1, <4>2, <4>3, ZenonT(30) DEF TrackedOK
    <3> QED BY <3>6, <3>7, ZenonT(30)
  <2> QED BY <2>1, <2>2, ZenonT(30)
<1> QED BY <1>3, <1>7, <1>8, <1>9, ZenonT(30) DEF Inv

(***************************************************************************)
(* ApplyHealthChange: one flag of one balancer is stored.  For a tracked   *)
(* URL the stored value is the verdict, because the change being applied   *)
(* is the only one on its way.                                             *)
(***************************************************************************)
LEMMA ApplyInv ==
    ASSUME Inv, NEW r \in Requests, ApplyHealthChange(r)
    PROVE  Inv'
<1> DEFINE q == req[r]
<1>1. /\ q \in ApplyState /\ q.gen \in 1 .. gen /\ q.svc \in Services
      /\ q.idx \in Indices(q.svc) /\ q.pc = "apply"
  BY HandlerFacts, ZenonT(30) DEF Inv, ApplyHealthChange, Applying
<1>2. PICK u \in Urls : u = UrlOf(r) /\ u \in UrlsOf(q.svc)
  BY <1>1, UrlType, ZenonT(30) DEF UrlOf
<1>3. PICK i \in Indices(q.svc) : i = FindServerIndex(q.svc, u)
  BY <1>1, <1>2, FindServerIndexSpec, ZenonT(30)
<1>4. PICK now \in BOOLEAN : now = (q.change = "BecameHealthy")
  BY ZenonT(30)
<1>5. q.gen \in Gens
  BY <1>1 DEF ApplyState
<1>6. /\ req'[r] = Idle /\ \A o \in Requests \ {r} : req'[o] = req[o]
      /\ req' = [req EXCEPT ![r] = Idle]
      /\ UNCHANGED <<passiveVars, gen, counter, tracked>>
      /\ flag' = [flag EXCEPT ![q.gen][q.svc][i] = now]
      /\ stable' = [o \in Requests |->
            IF Scanning(o) /\ req[o].gen = q.gen /\ req[o].svc = q.svc /\ ~now
            THEN stable[o] \ {i} ELSE stable[o]]
  BY <1>2, <1>3, <1>4, ZenonT(30) DEF ApplyHealthChange, Inv, TypeOK
<1>7. /\ flag' \in [Gens -> [Services -> UNION {[Indices(s) -> BOOLEAN] : s \in Services}]]
      /\ \A g \in Gens, s \in Services : flag'[g][s] \in [Indices(s) -> BOOLEAN]
      /\ flag'[q.gen][q.svc][i] = now
      /\ \A g \in Gens, s \in Services : \A k \in Indices(s) :
            ~(g = q.gen /\ s = q.svc /\ k = i) => flag'[g][s][k] = flag[g][s][k]
  <2> DEFINE row == [flag[q.gen][q.svc] EXCEPT ![i] = now]
  <2>1. row \in [Indices(q.svc) -> BOOLEAN] /\ row[i] = now
        /\ \A k \in Indices(q.svc) : k # i => row[k] = flag[q.gen][q.svc][k]
    BY <1>1, <1>3, <1>5, ZenonT(30) DEF Inv, TypeOK
  <2>2. flag' = [flag EXCEPT ![q.gen][q.svc] = row]
    BY <1>6, ZenonT(30)
  <2> HIDE DEF row
  <2>3. \A g \in Gens, s \in Services :
          flag'[g][s] = IF g = q.gen /\ s = q.svc THEN row ELSE flag[g][s]
    BY <1>1, <1>5, <2>2, ZenonT(30) DEF Inv, TypeOK
  <2>4. \A g \in Gens, s \in Services : flag'[g][s] \in [Indices(s) -> BOOLEAN]
    <3> SUFFICES ASSUME NEW g \in Gens, NEW s \in Services
                 PROVE  flag'[g][s] \in [Indices(s) -> BOOLEAN]
      BY ZenonT(30)
    <3>1. flag[g][s] \in [Indices(s) -> BOOLEAN]
      BY ZenonT(30) DEF Inv, TypeOK
    <3>2. CASE g = q.gen /\ s = q.svc
      BY <2>1, <2>3, <3>2, ZenonT(30)
    <3>3. CASE ~(g = q.gen /\ s = q.svc)
      BY <2>3, <3>1, <3>3, ZenonT(30)
    <3> QED BY <3>2, <3>3, ZenonT(30)
  <2>5. flag' \in [Gens -> [Services -> UNION {[Indices(s) -> BOOLEAN] : s \in Services}]]
    <3>1. row \in UNION {[Indices(s) -> BOOLEAN] : s \in Services}
      BY <1>1, <2>1, ZenonT(30)
    <3> QED BY <1>1, <1>5, <2>2, <3>1, ZenonT(30) DEF Inv, TypeOK
  <2> QED BY <1>1, <1>5, <2>1, <2>3, <2>4, <2>5, ZenonT(60)
<1>same. \A g \in Gens, s \in Services : \A k \in Indices(s) :
            ~(g = q.gen /\ s = q.svc /\ k = i) => flag'[g][s][k] = flag[g][s][k]
  BY <1>7, ZenonT(30)
<1>8. PassiveInv' /\ \A v \in Urls : IsHealthy(v)' = IsHealthy(v)
  BY <1>6, PassiveStutterInv, ZenonT(30) DEF Inv
<1>9. TypeOK'
  <2>1. req' \in [Requests -> RequestState] /\ stable' \in [Requests -> SUBSET Nat]
    BY <1>6, ZenonT(30) DEF Inv, TypeOK, RequestState
  <2>2. \A o \in Requests : InRange(req'[o], gen')
    BY <1>6, IdleInRange, ZenonT(30) DEF Inv, TypeOK
  <2> QED BY <1>6, <1>7, <1>8, <2>1, <2>2, ZenonT(30) DEF Inv, TypeOK, PassiveInv
<1>10. ScanOK'
  <2>1. ScanOKFor(r)'
    BY <1>6, IdleScan, ZenonT(30)
  <2>2. ASSUME NEW o \in Requests \ {r} PROVE ScanOKFor(o)'
    <3>1. ScanOKFor(o) /\ req'[o] = req[o] /\ stable'[o] \subseteq stable[o]
      BY <1>6, ZenonT(30) DEF Inv, ScanOK
    <3>2. ASSUME Scanning(o), NEW k \in stable'[o]
          PROVE  k \in Indices(req[o].svc) /\ flag'[req[o].gen][req[o].svc][k]
      <4>1. k \in Indices(req[o].svc) /\ flag[req[o].gen][req[o].svc][k]
        BY <3>1, <3>2, ZenonT(30) DEF ScanOKFor
      <4>2. req[o].gen \in Gens /\ req[o].svc \in Services
        BY <3>2, HandlerFacts, ZenonT(30) DEF Inv, ScanState
      <4>3. CASE req[o].gen = q.gen /\ req[o].svc = q.svc /\ k = i
        BY <1>6, <1>7, <3>2, <4>1, <4>3, ZenonT(30)
      <4>4. CASE ~(req[o].gen = q.gen /\ req[o].svc = q.svc /\ k = i)
        BY <1>same, <4>1, <4>2, <4>4, ZenonT(60)
      <4> QED BY <4>1, <4>3, <4>4, ZenonT(30)
    <3> QED BY <3>1, <3>2, ZenonT(30) DEF ScanOKFor, Scanning, Awaiting
  <2> QED BY <2>1, <2>2, ZenonT(30) DEF ScanOK
<1>11. FreshOK'
  <2> SUFFICES ASSUME NEW g \in Gens, NEW s \in Services, g > gen
               PROVE  flag'[g][s] = [k \in Indices(s) |-> TRUE]
    BY <1>6, ZenonT(30) DEF FreshOK
  <2>1. g # q.gen
    BY <1>1, GenFacts, ZenonT(30) DEF Inv
  <2>2. flag[g][s] = [k \in Indices(s) |-> TRUE]
    BY ZenonT(30) DEF Inv, FreshOK
  <2>3. flag'[g][s] \in [Indices(s) -> BOOLEAN]
    BY <1>7, ZenonT(30)
  <2>4. \A k \in Indices(s) : flag'[g][s][k] = TRUE
    BY <1>7, <2>1, <2>2, ZenonT(30)
  <2> QED BY <2>3, <2>4, ZenonT(30)
<1>12. TrackOK'
  <2> SUFFICES ASSUME NEW g \in 1 .. gen, NEW s \in Services, NEW v \in tracked[g][s]
               PROVE  TrackedOK(g, s, v)'
    BY <1>6, ZenonT(30) DEF TrackOK
  <2>1. g \in Gens /\ v \in Urls /\ TrackedOK(g, s, v)
    BY TrackedUrl, ZenonT(30) DEF Inv, TrackOK
  <2>2. Pending(v)' = Pending(v) \ {r}
    BY <1>6, IdlePending, ZenonT(30)
  <2>3. \A o \in Pending(v) \ {r} : req'[o] = req[o]
    BY <1>6, ZenonT(30) DEF Pending
  <2>4. CASE v = u
    <3>1. r \in Pending(v)
      BY <1>1, <1>2, <2>4, ZenonT(30) DEF Pending, Applying
    <3>2. g = q.gen /\ s = q.svc /\ now = IsHealthy(v) /\ Pending(v)' = {}
      BY <1>4, <2>1, <2>2, <3>1, ZenonT(30) DEF TrackedOK
    <3>3. flag'[g][s][FindServerIndex(s, v)] = IsHealthy(v)
      BY <1>3, <1>7, <2>4, <3>2, ZenonT(30)
    <3> QED BY <1>8, <2>1, <3>2, <3>3, ZenonT(30) DEF TrackedOK
  <2>5. CASE v # u
    <3>1. r \notin Pending(v)
      BY <1>2, <2>5, ZenonT(30) DEF Pending
    <3>2. /\ FindServerIndex(s, v) \in Indices(s)
          /\ Url(s, FindServerIndex(s, v)) = v
      BY <2>1, FindServerIndexSpec, ZenonT(30) DEF TrackedOK
    <3>3. Url(q.svc, i) = u
      BY <1>1, <1>2, <1>3, FindServerIndexSpec, ZenonT(30)
    <3>4. flag'[g][s][FindServerIndex(s, v)] = flag[g][s][FindServerIndex(s, v)]
      BY <1>7, <2>1, <2>5, <3>2, <3>3, ZenonT(30)
    <3> QED BY <1>8, <2>1, <2>2, <2>3, <3>1, <3>4, ZenonT(60) DEF TrackedOK
  <2> QED BY <2>4, <2>5, ZenonT(30)
<1> QED BY <1>8, <1>9, <1>10, <1>11, <1>12, ZenonT(30) DEF Inv

LEMMA StutterInv ==
    ASSUME Inv, UNCHANGED vars
    PROVE  Inv'
<1>1. UNCHANGED <<passiveVars, gen, flag, counter, req, stable, tracked>>
  BY DEF vars, balancerVars
<1>2. PassiveInv' /\ \A u \in Urls : IsHealthy(u)' = IsHealthy(u)
  BY <1>1, PassiveStutterInv, ZenonT(30) DEF Inv, passiveVars, IsHealthy
<1> QED BY <1>1, <1>2, QuietInv

LEMMA NextInv == Inv /\ [Next]_vars => Inv'
BY BeginInv, ProbeInv, RespondInv, AbandonInv, ApplyInv, ReloadInv, TickInv, StutterInv
   DEF Next

(***************************************************************************)
(* The request path is well typed: no handler ever holds an index outside  *)
(* the server list of its balancer, whatever reloads happen meanwhile.     *)
(***************************************************************************)
THEOREM TypeSafety == Spec => []TypeOK
<1>1. Inv => TypeOK
  BY ZenonT(30) DEF Inv
<1> QED BY <1>1, InitInv, NextInv, PTL DEF Spec

(***************************************************************************)
(* next_server gives up only if no server was flagged healthy throughout   *)
(* its scan, for any server list and any number of concurrent handlers.    *)
(***************************************************************************)
THEOREM FallbackIsJustified == Spec => []FallbackJustified
<1>1. Inv => FallbackJustified
  BY ZenonT(30) DEF Inv, ScanOK, ScanOKFor, FallbackJustified
<1> QED BY <1>1, InitInv, NextInv, PTL DEF Spec

(***************************************************************************)
(* While its changes went through one balancer, one at a time, a URL is    *)
(* flagged as the passive checker judges it once they are all applied.     *)
(***************************************************************************)
THEOREM FlagsTrackVerdicts == Spec => []FlagTracksVerdict
<1>1. Inv => FlagTracksVerdict
  BY DEF Inv, TrackOK, TrackedOK, FlagTracksVerdict
<1> QED BY <1>1, InitInv, NextInv, PTL DEF Spec
=============================================================================
