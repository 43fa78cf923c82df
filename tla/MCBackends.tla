----------------------------- MODULE MCBackends -----------------------------
(***************************************************************************)
(* The parts that deal with backends one at a time, for TLC: the request   *)
(* path with its balancers and passive health (ProxyHealth), the HTTP/2    *)
(* pool, the active checks with failover, the other balancers, what is     *)
(* written for others to read, and the check of a configuration.  They     *)
(* share no state: a behaviour runs one of them, chosen at the start.      *)
(***************************************************************************)
EXTENDS MCProxyHealth, H2Pool, ActiveHealth, Selection, Formats, ConfigCheck

CONSTANTS q1, q2, q3, near, far

VARIABLE part

mcVars == <<part, vars, h2Vars, activeVars, selVars, formatVars, confVars>>

MCInit ==
  /\ part \in {"proxy", "reload", "h2", "active", "selection", "formats", "config"}
  /\ Init /\ FormatInit
  /\ H2Init
  /\ ActiveInit /\ (part # "active" => mood = "success" /\ ~router.status)
  /\ SelInit /\ (part # "selection" => kind = "least")
  /\ IF part = "config" THEN ConfInit
     ELSE conf = (CHOOSE c \in Configs : TRUE) /\ made = << >>

\* With two services that share a backend, or with one across a reload.
ProxyOn ==
  /\ \/ part = "proxy" /\ gen' = gen
     \/ part = "reload" /\ \A r \in Requests : req'[r].pc # "idle" => req'[r].svc = api
  /\ UNCHANGED <<part, h2Vars, activeVars, selVars, formatVars, confVars>>

H2On ==
  /\ part = "h2"
  /\ UNCHANGED <<part, vars, activeVars, selVars, formatVars, confVars>>

ActiveOn ==
  /\ part = "active"
  /\ UNCHANGED <<part, vars, h2Vars, selVars, formatVars, confVars>>

SelectionOn ==
  /\ part = "selection"
  /\ UNCHANGED <<part, vars, h2Vars, activeVars, formatVars, confVars>>

FormatsOn ==
  /\ part = "formats"
  /\ UNCHANGED <<part, vars, h2Vars, activeVars, selVars, confVars>>

ConfigOn ==
  /\ part = "config"
  /\ UNCHANGED <<part, vars, h2Vars, activeVars, selVars, formatVars>>

MCNext ==
  \/ Next /\ ProxyOn
  \/ H2On /\ H2Next
  \/ ActiveOn /\ ActiveNext
  \/ SelectionOn /\ SelNext
  \/ FormatsOn /\ FormatNext
  \/ ConfigOn /\ ConfNext

\* The fairness of each specification, for its own part.
MCSpec ==
  /\ MCInit /\ [][MCNext]_mcVars
  /\ \A r \in Requests : WF_vars(part = "proxy" /\ HandlerStep(r))
  /\ \A r \in H2Reqs : WF_h2Vars(part = "h2" /\ H2Step(r))
  /\ WF_activeVars(part = "active" /\ CheckerStep)

\* Every request a handler began comes to an end, whatever others mark while
\* it looks for a server.
HandlersEnd == part = "proxy" => RequestsComplete

\* Every request through the HTTP/2 pool ends, however its locks are waited for.
PoolRequestsEnd == part = "h2" => H2RequestsEnd

\* A primary that stays silent or unreachable is given up for its fallback.
ChecksFollowed == part = "active" => FailoverFollows

\* Work for backends comes to an end: requests through balancer and pool, and
\* checks of a server that never answers.
BackendWorkEnds == HandlersEnd /\ PoolRequestsEnd /\ ChecksFollowed

-----------------------------------------------------------------------------
(* Values of the constants *)

TwoHosts == (q1 :> near) @@ (q2 :> near) @@ (q3 :> far)
ServerWeights == <<2, 0, 1>>
SecondsAsked == {0, 1, 59, 60, 61, 3599, 3600, 3660, 3661, 86400, 90061}
NanosAsked == {0, 1, 999, 1000, 999999, 1000000, 1500000, 500000000, 999999999}
HeadersAsked ==
  LET ids(n, widths) == {Id(n, w) : w \in widths}
  IN  [w3c : {Absent} \cup [present : {TRUE}, trace : ids("w", {31, 32}),
                            span : ids("x", {8, 16}), flags : 0 .. 3],
       b3 : {Absent} \cup [present : {TRUE}, trace : ids("b", {8, 16, 32}),
                           span : ids("y", {16}), sampled : BOOLEAN],
       jaeger : {Absent} \cup [present : {TRUE}, trace : ids("j", {10, 16, 32}),
                               span : ids("z", {16}), flags : 0 .. 2],
       state : {"none", "vendor"}]
ListsAsked == {<<>>, <<1>>, <<3, 3>>, <<1, 3>>}
NamesAsked ==
  LET lengths == {1, 63, 100, 121, 122, 127, 128, 200, 253}
  IN  {<<m>> : m \in lengths} \cup {<<m, n>> : m, n \in lengths}
=============================================================================
