-------------------------------- MODULE Http --------------------------------
(***************************************************************************)
(* The life of one HTTP request in the proxy: the listener's service       *)
(* function (server/listener.rs), ProxyHandler::handle (proxy/handler.rs), *)
(* the middleware chain the registry builds for the matched route          *)
(* (middleware/registry.rs, middleware/builtin) and the access log.        *)
(*                                                                         *)
(* Requests share nothing on this path but the components that have        *)
(* modules of their own (rate limiter, balancers, passive health), so one  *)
(* request is enough: `quota' is the limiter's verdict and `svc' what the  *)
(* service manager and the balancer would return.  Paths are sequences of  *)
(* the symbols "/" and letters, "acme" standing for the well-known prefix; *)
(* a regular expression is a literal, searched for like any other.         *)
(***************************************************************************)
EXTENDS Naturals, Sequences, FiniteSets

CONSTANTS
    HttpRequests,   \* the requests a client may send, records of HttpRequest
    HttpRoutes,     \* the middleware names and the service of the matched route
    MwConfigs,      \* MwConfigs[name]: the sections of a configured middleware
    BackendAnswers, \* the answers a backend may give: status and headers
    Tokens          \* the challenge tokens an ACME order is waiting for

VARIABLES
    req,      \* the request as the next middleware or the backend call sees it
    asked,    \* the request as it arrived
    trail,    \* history: the request as each middleware was given it
    route,    \* the matched route, or none
    chain,    \* the middleware instances of the route, in order
    stage,    \* what happens next
    frames,   \* one entry per middleware entered and not left: the Origin it saw
    sent,     \* what the backend was sent: at most one request
    noted,    \* the statuses passive health was told of
    resp,     \* the response being carried back
    logged    \* the entries written to the access log

httpVars == <<req, asked, trail, route, chain, stage, frames, sent, noted, resp, logged>>

Nil == "-"
NoRoute == [names |-> <<>>, svc |-> "none"]
NoResp == [status |-> 0, grpc |-> 0, by |-> Nil, hdr |-> <<>>]

\* A header map: the headers set, as a function from their names.
Put(h, name, value) == [n \in DOMAIN h \cup {name} |-> IF n = name THEN value ELSE h[n]]
Drop(h, names) == [n \in DOMAIN h \ names |-> h[n]]
PutAll(h, more) == [n \in DOMAIN h \cup DOMAIN more |->
                       IF n \in DOMAIN more THEN more[n] ELSE h[n]]
Header(h, name) == IF name \in DOMAIN h THEN h[name] ELSE Nil

-----------------------------------------------------------------------------
(* Responses the proxy makes itself.                                       *)

\* The gRPC status a gateway error is turned into.
FromHttpStatus(status) ==
    CASE status = 200 -> 0 [] status = 400 -> 3 [] status = 401 -> 16
      [] status = 403 -> 7 [] status = 404 -> 5 [] status \in {408, 504} -> 4
      [] status = 409 -> 10 [] status = 429 -> 8 [] status = 499 -> 1
      [] status = 500 -> 13 [] status = 501 -> 12 [] status \in {502, 503} -> 14
      [] OTHER -> 2

\* A gRPC error is an HTTP 200 that carries the status in a header.
GrpcGatewayError(status) ==
    [status |-> 200, grpc |-> FromHttpStatus(status), by |-> "proxy", hdr |-> <<>>]

ErrorResponse(status, isGrpc) ==
    IF isGrpc THEN GrpcGatewayError(status)
    ELSE [status |-> status, grpc |-> 0, by |-> "proxy", hdr |-> <<>>]

\* What a middleware answers instead of calling the next one.
Refusal(status, hdr) == [status |-> status, grpc |-> 0, by |-> "middleware", hdr |-> hdr]

-----------------------------------------------------------------------------
(* The middlewares that rewrite the path.                                  *)

\* The longest remainder of path after its first occurrence of pat, with the
\* place it was found at; a pattern that does not occur is found at 0.
FindIn(pat, path) ==
    LET hits == {i \in 1 .. Len(path) - Len(pat) + 1 :
                    SubSeq(path, i, i + Len(pat) - 1) = pat}
    IN  IF hits = {} THEN 0 ELSE CHOOSE i \in hits : \A j \in hits : i <= j

StartsWith(path, prefix) == Len(prefix) <= Len(path) /\ SubSeq(path, 1, Len(prefix)) = prefix
AfterPrefix(path, prefix) == SubSeq(path, Len(prefix) + 1, Len(path))
Slashed(path) == IF path = <<>> \/ Head(path) # "/" THEN <<"/">> \o path ELSE path

\* StripPrefix: the first prefix of the list that the path has is removed; an
\* empty rest becomes the root, any other rest gets a slash only on request.
StripPrefix(mw, r) ==
    LET fits == {i \in DOMAIN mw.prefixes : StartsWith(r.path, mw.prefixes[i])}
        prefix == mw.prefixes[CHOOSE i \in fits : \A j \in fits : i <= j]
        rest == AfterPrefix(r.path, prefix)
    IN  IF fits = {} THEN r
        ELSE [r EXCEPT !.path = IF rest = <<>> \/ mw.force THEN Slashed(rest) ELSE rest,
                       !.hdr = Put(@, "x-forwarded-prefix", prefix)]

\* StripPrefixRegex: a match counts only at the start of the path.
StripPrefixRegex(mw, r) ==
    LET fits == {i \in DOMAIN mw.patterns : FindIn(mw.patterns[i], r.path) = 1}
        pat == mw.patterns[CHOOSE i \in fits : \A j \in fits : i <= j]
    IN  IF fits = {} THEN r
        ELSE [r EXCEPT !.path = Slashed(AfterPrefix(r.path, pat)),
                       !.hdr = Put(@, "x-forwarded-prefix", pat)]

AddPrefix(mw, r) == [r EXCEPT !.path = mw.prefix \o @]

ReplacePath(mw, r) == [r EXCEPT !.path = mw.path, !.hdr = Put(@, "x-replaced-path", r.path)]

\* ReplacePathRegex: the first match is replaced; a path it leaves as it was
\* is not a replacement.
ReplacePathRegex(mw, r) ==
    LET i == FindIn(mw.pattern, r.path)
        path == SubSeq(r.path, 1, i - 1) \o mw.with
                  \o SubSeq(r.path, i + Len(mw.pattern), Len(r.path))
    IN  IF i = 0 \/ path = r.path THEN r
        ELSE [r EXCEPT !.path = path, !.hdr = Put(@, "x-replaced-path", r.path)]

-----------------------------------------------------------------------------
(* The headers middleware and the CORS rules inside it.                    *)

ApplyRequest(mw, r) == [r EXCEPT !.hdr = PutAll(Drop(@, mw.reqDel), mw.reqSet)]
ApplyResponse(mw, p) == [p EXCEPT !.hdr = PutAll(Drop(@, mw.respDel), mw.respSet)]

HasCors(mw) == mw.origins # {}
AllowAll(mw) == "*" \in mw.origins
IsOriginAllowed(mw, origin) == AllowAll(mw) \/ origin \in mw.origins
OriginValue(mw, origin) == IF AllowAll(mw) /\ ~mw.credentials THEN "*" ELSE origin
Credentials(mw) ==
    IF mw.credentials THEN [n \in {"allow-credentials"} |-> "true"] ELSE <<>>

IsPreflight(r) ==
    /\ r.method = "OPTIONS"
    /\ {"origin", "request-method"} \subseteq DOMAIN r.hdr

SimpleHeaders == {"accept", "accept-language", "content-language", "content-type", "range"}

\* The method a preflight asks for must be allowed, and each header it asks
\* for must be allowed or safe.
ValidatePreflight(mw, r) ==
    /\ Header(r.hdr, "request-method") \in mw.methods
    /\ "request-headers" \in DOMAIN r.hdr =>
           r.hdr["request-headers"] \subseteq mw.headers \cup SimpleHeaders

HandlePreflight(mw, r) ==
    IF IsOriginAllowed(mw, r.hdr["origin"]) /\ ValidatePreflight(mw, r)
    THEN Refusal(204, PutAll(Credentials(mw),
             [n \in {"allow-origin"} |-> OriginValue(mw, r.hdr["origin"])]))
    ELSE Refusal(403, <<>>)

ApplyCors(mw, origin, p) ==
    IF origin = Nil \/ ~IsOriginAllowed(mw, origin) THEN p
    ELSE [p EXCEPT !.hdr = PutAll(Put(@, "allow-origin", OriginValue(mw, origin)),
                                  Credentials(mw))]

-----------------------------------------------------------------------------
(* What each middleware does on the way in and on the way out.             *)

\* The redirect keeps the path; the Location is what a property can see of it.
BuildRedirect(mw, r) ==
    Refusal(IF mw.permanent THEN 301 ELSE 302,
            [n \in {"location"} |-> <<mw.scheme, IF r.host = Nil THEN "localhost" ELSE r.host,
                                      r.path>>])

\* A list without networks lets everybody in, respectively keeps nobody out.
IsAllowed(mw, ip) == mw.nets = {} \/ ip \in mw.nets
IsDenied(mw, ip) == ip \in mw.nets

\* A credential stands for the user and the password an Authorization header
\* decodes to.
IsAuthenticated(mw, r) == Header(r.hdr, "authorization") \in mw.users
ShouldRedirect(mw, r) == mw.scheme # (IF r.tls THEN "https" ELSE "http")

\* The answer of a middleware that does not call the next one, or NoResp.
Verdict(mw, r) ==
    CASE mw.kind = "headers" /\ HasCors(mw) /\ IsPreflight(r) -> HandlePreflight(mw, r)
      [] mw.kind = "rateLimit" /\ ~r.quota -> Refusal(429, <<>>)
      [] mw.kind = "ipAllowList" /\ ~IsAllowed(mw, r.ip) -> Refusal(mw.reject, <<>>)
      [] mw.kind = "ipDenyList" /\ IsDenied(mw, r.ip) -> Refusal(403, <<>>)
      [] mw.kind = "basicAuth" /\ ~IsAuthenticated(mw, r) ->
             Refusal(401, [n \in {"www-authenticate"} |-> "Basic"])
      [] mw.kind = "redirectScheme" /\ ShouldRedirect(mw, r) -> BuildRedirect(mw, r)
      [] OTHER -> NoResp

\* The request a middleware hands to the next one.
Transform(mw, r) ==
    CASE mw.kind = "headers" -> ApplyRequest(mw, r)
      [] mw.kind = "stripPrefix" -> StripPrefix(mw, r)
      [] mw.kind = "addPrefix" -> AddPrefix(mw, r)
      [] mw.kind = "replacePath" -> ReplacePath(mw, r)
      [] mw.kind = "stripPrefixRegex" -> StripPrefixRegex(mw, r)
      [] mw.kind = "replacePathRegex" -> ReplacePathRegex(mw, r)
      [] OTHER -> r

\* The response a middleware hands back, given the origin it saw.
Unwind(mw, origin, p) ==
    IF mw.kind # "headers" THEN p
    ELSE IF HasCors(mw) THEN ApplyCors(mw, origin, ApplyResponse(mw, p))
    ELSE ApplyResponse(mw, p)

-----------------------------------------------------------------------------
(* The registry.                                                           *)

\* A configured middleware becomes the first kind it has a section for; a
\* section whose regular expression does not compile is passed over, and a
\* kind that is not in the list makes no middleware at all.
SectionOrder ==
    <<"headers", "rateLimit", "ipAllowList", "ipDenyList", "basicAuth", "redirectScheme",
      "stripPrefix", "addPrefix", "replacePath", "stripPrefixRegex", "replacePathRegex",
      "compress">>

CreateMiddleware(config) ==
    SelectSeq(SectionOrder, LAMBDA k : k \in DOMAIN config /\ config[k].valid)

\* The instances for the names of a route, the unknown ones left out.
Resolve(names) ==
    LET known == SelectSeq(names, LAMBDA n :
                     n \in DOMAIN MwConfigs /\ CreateMiddleware(MwConfigs[n]) # <<>>)
    IN  [i \in DOMAIN known |->
            MwConfigs[known[i]][Head(CreateMiddleware(MwConfigs[known[i]]))]]

Sections == UNION {{MwConfigs[n][k] : k \in DOMAIN MwConfigs[n]} : n \in DOMAIN MwConfigs}

\* A request has the parts the code reads of it, and the names of a route
\* stand for a list of configured sections.
ASSUME HttpConfig ==
    /\ \A r \in HttpRequests :
          DOMAIN r = {"tls", "ip", "host", "path", "method", "grpc", "quota", "hdr"}
    /\ \A rt \in HttpRoutes : Resolve(rt.names) \in Seq(Sections)

-----------------------------------------------------------------------------
(* The request the backend gets.                                           *)

HopByHop == {"connection", "transfer-encoding", "upgrade"}
ProxyOnly == {"keep-alive", "proxy-authenticate", "proxy-authorization"}

\* The hop-by-hop headers go, but a gRPC request keeps its TE: trailers.
CleanHeaders(h, isGrpc) ==
    IF ~isGrpc THEN Drop(h, HopByHop \cup ProxyOnly \cup {"te", "trailers"})
    ELSE LET kept == Drop(h, ProxyOnly)
         IN  IF "te" \in DOMAIN kept THEN kept ELSE Put(kept, "te", "trailers")

\* The address of the connection goes after whatever the header said before.
ForwardedFor(h, ip) == <<Header(h, "x-forwarded-for"), ip>>

ForwardedHeaders(h, r) ==
    LET hostless == Put(Put(h, "x-forwarded-for", ForwardedFor(h, r.ip)),
                        "x-forwarded-proto", IF r.tls THEN "https" ELSE "http")
    IN  IF asked.host = Nil THEN hostless ELSE Put(hostless, "x-forwarded-host", asked.host)

BuildProxiedRequest(r) ==
    [path |-> r.path,
     hdr  |-> Put(ForwardedHeaders(CleanHeaders(r.hdr, asked.grpc), r), "host", "backend")]

UseH2 == asked.grpc \/ route.svc = "h2c"
IsWebsocketUpgrade(r) ==
    /\ Header(r.hdr, "connection") = "upgrade"
    /\ Header(r.hdr, "upgrade") = "websocket"

-----------------------------------------------------------------------------
(* The steps of a request.                                                 *)

HttpInit ==
    /\ asked = <<>>
    /\ req = asked
    /\ trail = <<>>
    /\ route = NoRoute
    /\ chain = <<>>
    /\ stage = "none"
    /\ frames = <<>>
    /\ sent = <<>>
    /\ noted = <<>>
    /\ resp = NoResp
    /\ logged = <<>>

\* The service function of the listener is called with a request; what
\* match_request will find for it is settled by the configuration.
Arrive ==
    /\ stage = "none"
    /\ asked' \in HttpRequests /\ req' = asked' /\ trail' = <<asked'>>
    /\ route' \in HttpRoutes \cup {NoRoute}
    /\ stage' = "accept"
    /\ UNCHANGED <<chain, frames, sent, noted, resp, logged>>

IsChallenge == ~asked.tls /\ asked.path # <<>> /\ Head(asked.path) = "acme"

LogEntry(status) == [status |-> status, path |-> asked.path, route |-> route.svc]

\* A challenge on a plain connection is answered before anything else, known
\* token or not, and leaves no line in the access log.
AnswerChallenge ==
    /\ stage = "accept"
    /\ IsChallenge
    /\ resp' = [status |-> IF Tail(asked.path) \in Tokens THEN 200 ELSE 404,
                grpc |-> 0, by |-> "acme", hdr |-> <<>>]
    /\ stage' = "done"
    /\ UNCHANGED <<req, asked, trail, route, chain, frames, sent, noted, logged>>

RouteMissing ==
    /\ stage = "accept"
    /\ ~IsChallenge
    /\ route = NoRoute
    /\ resp' = ErrorResponse(404, asked.grpc)
    /\ logged' = Append(logged, LogEntry(resp'.status))
    /\ stage' = "done"
    /\ UNCHANGED <<req, asked, trail, route, chain, frames, sent, noted>>

RouteMatched ==
    /\ stage = "accept"
    /\ ~IsChallenge
    /\ route # NoRoute
    /\ chain' = Resolve(route.names)
    /\ stage' = "enter"
    /\ UNCHANGED <<req, asked, trail, route, frames, sent, noted, resp, logged>>

Entering == stage = "enter" /\ Len(frames) < Len(chain)
Current == chain[Len(frames) + 1]

\* A middleware answers by itself: the ones inside it and the backend never
\* see the request, the ones around it get the answer.
Refuse ==
    /\ Entering
    /\ Verdict(Current, req) # NoResp
    /\ resp' = Verdict(Current, req)
    /\ stage' = "leave"
    /\ UNCHANGED <<req, asked, trail, route, chain, frames, sent, noted, logged>>

\* Mutant: an OPTIONS request is taken for a preflight by every middleware.
PassOnOptions ==
    /\ Entering
    /\ Verdict(Current, req) = NoResp \/ req.method = "OPTIONS"
    /\ req' = Transform(Current, req)
    /\ trail' = Append(trail, req')
    /\ frames' = Append(frames, Header(req.hdr, "origin"))
    /\ UNCHANGED <<asked, route, chain, stage, sent, noted, resp, logged>>

PassOn ==
    /\ Entering
    /\ Verdict(Current, req) = NoResp
    /\ req' = Transform(Current, req)
    /\ trail' = Append(trail, req')
    /\ frames' = Append(frames, Header(req.hdr, "origin"))
    /\ UNCHANGED <<asked, route, chain, stage, sent, noted, resp, logged>>

AtEndpoint == stage = "enter" /\ Len(frames) = Len(chain)

\* No such service, a service without a balancer, no server picked.
NoBackend ==
    /\ AtEndpoint
    /\ route.svc \in {"missing", "unbalanced", "unhealthy"}
    /\ resp' = ErrorResponse(503, asked.grpc)
    /\ stage' = "leave"
    /\ UNCHANGED <<req, asked, trail, route, chain, frames, sent, noted, logged>>

\* An url that the validation of the configuration takes (url::Url) and the
\* client's own type does not (hyper::Uri): no request can be made for it.
BadUri ==
    /\ AtEndpoint
    /\ route.svc = "badurl"
    /\ UseH2 \/ ~IsWebsocketUpgrade(req)
    /\ resp' = ErrorResponse(500, asked.grpc)
    /\ stage' = "leave"
    /\ UNCHANGED <<req, asked, trail, route, chain, frames, sent, noted, logged>>

StartUpgrade ==
    /\ AtEndpoint
    /\ route.svc \in {"http", "badurl"}
    /\ ~UseH2 /\ IsWebsocketUpgrade(req)
    /\ stage' = "upgrade"
    /\ UNCHANGED <<req, asked, trail, route, chain, frames, sent, noted, resp, logged>>

\* The handshake with the backend ends in a tunnel or in a bad gateway; it has
\* no time limit (module Tunnel has its steps).
EndUpgrade ==
    /\ stage = "upgrade"
    /\ \E status \in {101, 502} :
           resp' = [status |-> status, grpc |-> 0, by |-> "tunnel", hdr |-> <<>>]
    /\ stage' = "leave"
    /\ UNCHANGED <<req, asked, trail, route, chain, frames, sent, noted, logged>>

SendRequest ==
    /\ AtEndpoint
    /\ route.svc \in {"http", "h2c"}
    /\ UseH2 \/ ~IsWebsocketUpgrade(req)
    /\ sent' = Append(sent, BuildProxiedRequest(req))
    /\ stage' = "wait"
    /\ UNCHANGED <<req, asked, trail, route, chain, frames, noted, resp, logged>>

BackendResponds ==
    /\ stage = "wait"
    /\ \E a \in BackendAnswers :
        /\ noted' = Append(noted, a.status)
        /\ resp' = [status |-> a.status, grpc |-> 0, by |-> "backend",
                    hdr |-> IF asked.grpc THEN a.hdr ELSE Drop(a.hdr, HopByHop)]
    /\ stage' = "leave"
    /\ UNCHANGED <<req, asked, trail, route, chain, frames, sent, logged>>

GiveUp(status) ==
    /\ noted' = Append(noted, status)
    /\ resp' = ErrorResponse(status, asked.grpc)
    /\ stage' = "leave"
    /\ UNCHANGED <<req, asked, trail, route, chain, frames, sent, logged>>

BackendFails == stage = "wait" /\ GiveUp(502)

\* 30 seconds, or 300 for gRPC.
BackendTimeout == stage = "wait" /\ GiveUp(504)

\* Mutant: an answer that is an error is handed back as it is.
LeaveErrorsAlone ==
    /\ stage = "leave" /\ frames # <<>>
    /\ resp' = IF resp.status < 400 THEN Unwind(chain[Len(frames)], frames[Len(frames)], resp) ELSE resp
    /\ frames' = SubSeq(frames, 1, Len(frames) - 1)
    /\ UNCHANGED <<req, asked, trail, route, chain, stage, sent, noted, logged>>

Leave ==
    /\ stage = "leave" /\ frames # <<>>
    /\ resp' = Unwind(chain[Len(frames)], frames[Len(frames)], resp)
    /\ frames' = SubSeq(frames, 1, Len(frames) - 1)
    /\ UNCHANGED <<req, asked, trail, route, chain, stage, sent, noted, logged>>

Finish ==
    /\ stage = "leave" /\ frames = <<>>
    /\ logged' = Append(logged, LogEntry(resp.status))
    /\ stage' = "done"
    /\ UNCHANGED <<req, asked, trail, route, chain, frames, sent, noted, resp>>

\* What the proxy does by itself; the backend's answers are the backend's.
HttpStep ==
    \/ AnswerChallenge \/ RouteMissing \/ RouteMatched \/ Refuse \/ PassOn
    \/ NoBackend \/ BadUri \/ StartUpgrade \/ SendRequest \/ BackendTimeout \/ Leave \/ Finish

HttpNext == Arrive \/ HttpStep \/ EndUpgrade \/ BackendResponds \/ BackendFails

HttpSpec == HttpInit /\ [][HttpNext]_httpVars

\* The runtime runs a request's task on; a timeout fires when it is due.
HttpFairSpec == HttpSpec /\ WF_httpVars(HttpStep)

-----------------------------------------------------------------------------
(* Properties.                                                             *)

\* The backend is sent a request only if every middleware of the route let it
\* through as the ones before it had left it (the Wrapper::handle functions of
\* middleware/registry.rs run by Next::run, middleware/mod.rs:54): the requests
\* the middlewares saw lead from the one that arrived to the one that is sent.
OnlyCheckedIsSent ==
    sent # <<>> =>
        /\ route # NoRoute
        /\ Len(trail) = Len(chain) + 1 /\ trail[1] = asked
        /\ \A i \in DOMAIN chain :
              /\ Verdict(chain[i], trail[i]) = NoResp
              /\ trail[i + 1] = Transform(chain[i], trail[i])
        /\ sent[1].path = trail[Len(trail)].path

\* Whatever the client wrote and the middlewares set, the backend is told the
\* scheme and the address the connection really had, gets its own Host, and no
\* hop-by-hop header unless the call is gRPC (build_proxied_request,
\* proxy/handler.rs:595).
BackendToldTheTruth ==
    sent # <<>> =>
        LET h == sent[1].hdr IN
        /\ h["x-forwarded-for"][2] = asked.ip
        /\ h["x-forwarded-proto"] = (IF asked.tls THEN "https" ELSE "http")
        /\ h["host"] = "backend"
        /\ asked.host # Nil => h["x-forwarded-host"] = asked.host
        /\ ~asked.grpc => DOMAIN h \cap (HopByHop \cup ProxyOnly \cup {"te"}) = {}
        /\ asked.grpc => "te" \in DOMAIN h

\* The outcome of the CORS rules of middleware i for this request.
CorsSays(i) ==
    LET origin == Header(trail[i].hdr, "origin") IN
    IF origin # Nil /\ IsOriginAllowed(chain[i], origin) THEN OriginValue(chain[i], origin) ELSE Nil

Writes(mw) == mw.kind = "headers" /\
    ("allow-origin" \in mw.respDel \cup DOMAIN mw.respSet \/ HasCors(mw))

\* A request that got past a CORS middleware is answered with its headers, the
\* errors of the middlewares inside it and of the proxy included: a browser can
\* read the failure (HeadersAndCorsWrapper, middleware/registry.rs:226).
CorsOnEveryAnswer ==
    stage = "done" =>
        \A i \in DOMAIN chain :
            (/\ i < Len(trail)
             /\ chain[i].kind = "headers" /\ HasCors(chain[i])
             /\ \A j \in 1 .. i - 1 : ~Writes(chain[j])
             /\ CorsSays(i) # Nil)
            => Header(resp.hdr, "allow-origin") = CorsSays(i)

\* Every answer but an ACME challenge's leaves exactly one line in the access
\* log, with the status the client gets and the path it asked for, whatever
\* the chain rewrote (proxy/handler.rs:193 and 264).
LoggedAsAnswered ==
    stage = "done" =>
        logged = IF resp.by = "acme" THEN <<>>
                 ELSE <<[status |-> resp.status, path |-> asked.path, route |-> route.svc]>>

\* Passive health hears of a backend exactly once per request sent to it, and
\* of nothing that happened before the backend was called: refusals, missing
\* routes and services count against nobody (proxy/handler.rs:431, 454, 474).
HealthHearsBackendOnly == stage \in {"leave", "done"} => Len(noted) = Len(sent)

\* Every request is answered, whatever the backend does, unless it is a
\* websocket handshake, which has no time limit (proxy/handler.rs:425).
EveryRequestAnswered == stage = "accept" ~> stage \in {"done", "upgrade"}

\* What is sent to a backend passed every check of its route and tells the
\* backend the truth about the client.
SentIsChecked == OnlyCheckedIsSent /\ BackendToldTheTruth

\* Every answer, error or not, carries its CORS headers, is logged once as the
\* client gets it, and passive health hears of backends only.
AnswersAccounted == CorsOnEveryAnswer /\ LoggedAsAnswered /\ HealthHearsBackendOnly
=============================================================================
