----------------------------- MODULE MCTraffic ------------------------------
(***************************************************************************)
(* What happens to a request, a connection or a datagram, for TLC: HTTP    *)
(* requests, routing, byte tunnels, certificates and UDP sessions.  They   *)
(* share no state, so a behaviour runs one of them, chosen at the start.   *)
(***************************************************************************)
EXTENDS Http, Routing, Tunnel, Acme, Udp

-----------------------------------------------------------------------------
(* HTTP: every kind of middleware, in chains that put the checks before    *)
(* and after what they depend on.                                          *)

HeadersOnly(reqSet, reqDel, respSet, respDel) ==
    [valid |-> TRUE, kind |-> "headers", reqSet |-> reqSet, reqDel |-> reqDel,
     respSet |-> respSet, respDel |-> respDel, origins |-> {}, credentials |-> FALSE,
     methods |-> {}, headers |-> {}]
Cors(origins, credentials) ==
    [HeadersOnly(<<>>, {}, <<>>, {}) EXCEPT !.origins = origins, !.credentials = credentials,
                                            !.methods = {"GET", "PUT"}, !.headers = {"x-k"}]

MCMwConfigs ==
    [cors     |-> [headers |-> Cors({"o1"}, FALSE)],
     corsAny  |-> [headers |-> Cors({"*"}, TRUE)],
     corsStar |-> [headers |-> Cors({"*"}, FALSE)],
     login    |-> [headers |-> HeadersOnly("authorization" :> "good", {"cookie"},
                                           "server" :> "cop", {"x-powered-by"})],
     lie      |-> [headers |-> HeadersOnly("x-forwarded-proto" :> "gopher" @@ "host" :> "other",
                                           {"x-forwarded-for"}, <<>>, {"allow-origin"})],
     unorigin |-> [headers |-> HeadersOnly(<<>>, {"origin", "connection"}, <<>>, {})],
     limit    |-> [rateLimit |-> [valid |-> TRUE, kind |-> "rateLimit"]],
     allow    |-> [ipAllowList |-> [valid |-> TRUE, kind |-> "ipAllowList", nets |-> {"c"}, reject |-> 404]],
     deny     |-> [ipDenyList |-> [valid |-> TRUE, kind |-> "ipDenyList", nets |-> {"d"}]],
     auth     |-> [basicAuth |-> [valid |-> TRUE, kind |-> "basicAuth", users |-> {"good"}]],
     secure   |-> [redirectScheme |-> [valid |-> TRUE, kind |-> "redirectScheme", scheme |-> "https",
                                       permanent |-> TRUE]],
     strip    |-> [stripPrefix |-> [valid |-> TRUE, kind |-> "stripPrefix", force |-> TRUE,
                                    prefixes |-> << <<"/", "b">>, <<"/", "a">> >>]],
     add      |-> [addPrefix |-> [valid |-> TRUE, kind |-> "addPrefix", prefix |-> <<"/", "a">>]],
     replace  |-> [replacePath |-> [valid |-> TRUE, kind |-> "replacePath", path |-> <<"/", "b">>]],
     stripRe  |-> [stripPrefixRegex |-> [valid |-> TRUE, kind |-> "stripPrefixRegex",
                                         patterns |-> << <<"b">>, <<"/", "a">> >>],
                   compress |-> [valid |-> TRUE, kind |-> "compress"]],
     badRe    |-> [stripPrefixRegex |-> [valid |-> FALSE],
                   compress |-> [valid |-> TRUE, kind |-> "compress"]],
     swap     |-> [replacePathRegex |-> [valid |-> TRUE, kind |-> "replacePathRegex",
                                         pattern |-> <<"a">>, with |-> <<"b", "b">>]],
     retry    |-> [retry |-> [valid |-> TRUE, kind |-> "retry"]]]

MCChains ==
    { <<>>, <<"auth">>, <<"cors", "auth", "strip">>, <<"auth", "cors">>, <<"login", "auth">>,
      <<"corsAny", "limit">>, <<"corsStar", "lie">>, <<"lie", "corsAny", "deny">>,
      <<"secure", "strip", "add">>, <<"allow", "strip", "auth">>, <<"unorigin", "cors", "badRe">>,
      <<"stripRe", "swap">>, <<"replace", "strip">>, <<"swap", "retry", "ghost", "limit">> }

MCHttpRoutes ==
    [names : MCChains, svc : {"http", "h2c"}]
    \cup [names : {<<>>, <<"cors", "auth", "strip">>}, svc : {"missing", "unbalanced", "unhealthy", "badurl"}]

MCHeaders ==
    { <<>>, "authorization" :> "good", "origin" :> "o1" @@ "x-forwarded-for" :> <<"p">>,
      "origin" :> "o2" @@ "authorization" :> "bad",
      "origin" :> "o1" @@ "request-method" :> "PUT" @@ "request-headers" :> {"range", "x-k"},
      "origin" :> "o1" @@ "request-method" :> "PUT" @@ "request-headers" :> {"x-j"},
      "connection" :> "upgrade" @@ "upgrade" :> "websocket" @@ "te" :> "gzip",
      "x-forwarded-proto" :> "https" @@ "keep-alive" :> "5" }

MCTokens == {<<"t">>}

MCPaths == { <<"/", "a">>, <<"/", "a", "/", "b">>, <<"acme", "t">>, <<"acme">> }

MCRequests ==
    { r \in [tls : BOOLEAN, ip : {"c", "d"}, host : {"h", Nil}, path : MCPaths,
             method : {"GET", "OPTIONS"}, grpc : BOOLEAN, quota : BOOLEAN, hdr : MCHeaders] :
        /\ r.method = "OPTIONS" => "request-method" \in DOMAIN r.hdr /\ ~r.grpc
        /\ r.ip = "d" => r.quota /\ ~r.tls
        /\ ~r.quota => ~r.tls
        /\ r.host = Nil => r.hdr = <<>> /\ r.ip = "c" /\ r.quota /\ ~r.grpc
        /\ Head(r.path) = "acme" => r.hdr = <<>> /\ ~r.grpc
        /\ r.grpc => Header(r.hdr, "request-method") = Nil }

MCBackendAnswers ==
    { [status |-> 200, hdr |-> "connection" :> "close" @@ "allow-origin" :> "x"],
      [status |-> 500, hdr |-> <<>>] }

-----------------------------------------------------------------------------
(* Routing: pairs of routes, rule trees, ClientHellos.                     *)

HostA == <<"a", "x">>
HostB == <<"b", "x">>
Rule(op, vals) == [op |-> op, vals |-> vals]
MCRules ==
    LET a == Rule("host", {HostA})
        b == Rule("host", {HostB})
        p == Rule("pathPrefix", {<<"/", "p">>})
        g == Rule("method", {"GET"})
        n == [op |-> "not", a |-> a]
    IN  {a, p, n, Rule("hostRegex", {HostA, HostB}),
         [op |-> "and", a |-> a, b |-> p], [op |-> "or", a |-> a, b |-> g],
         [op |-> "and", a |-> [op |-> "or", a |-> a, b |-> p], b |-> g],
         [op |-> "and", a |-> p, b |-> b],
         [op |-> "or", a |-> Rule("header", {<<"k", "v">>}), b |-> Rule("query", {<<"k", "w">>})]}

MCRouteSet == [name : {"r"}, eps : {{}, {"web"}, {"web", "alt"}}, rule : MCRules, priority : {0, 1}]
MCHttpProbes ==
    {[routes |-> <<[r1 EXCEPT !.name = "r1"], [r2 EXCEPT !.name = "r2"]>>, ep |-> ep, host |-> h,
      path |-> <<"/", "p">>, method |-> "GET", hdr |-> {}, query |-> {<<"k", "w">>}] :
        r1 \in MCRouteSet, r2 \in MCRouteSet, ep \in {"web", "alt"}, h \in {HostA, HostB}}
    \cup
    {[routes |-> <<[r1 EXCEPT !.name = "r1"]>>, ep |-> "alt", host |-> h, path |-> p, method |-> m,
      hdr |-> {<<"k", "v">>}, query |-> {}] :
        r1 \in MCRouteSet, h \in {NoHost, HostA}, p \in {<<"/">>, <<"/", "p", "q">>},
        m \in {"GET", "PUT"}}

Atoms == {[op |-> "atom", atom |-> t] : t \in {"p", "q", "r"}}
Grow(S) == S \cup {[op |-> "not", a |-> x] : x \in S}
             \cup {[op |-> o, a |-> x, b |-> y] : o \in {"and", "or"}, x \in S, y \in S}
MCRuleTrees == Grow(Grow(Atoms))

TRule(form, args) == [form |-> form, args |-> args]
MCTcpRouteSet ==
    [name : {"r"}, eps : {{}, {"web"}}, priority : {0, 1},
     rule : {TRule("HostSNI", {<<"*">>}), TRule("HostSNI", {HostA, <<"*">>}),
             TRule("HostSNI", {<<"*", "x">>}), TRule("ClientIP", {"c", "junk"}),
             TRule("ClientIP", {"junk"})}]
MCTcpProbes ==
    {[routes |-> <<[r1 EXCEPT !.name = "r1"], [r2 EXCEPT !.name = "r2"]>>, ep |-> ep, sni |-> s,
      ip |-> i] :
        r1 \in MCTcpRouteSet, r2 \in MCTcpRouteSet, ep \in {"web", "alt"},
        s \in {NoHost, HostA, HostB, <<"x">>}, i \in {"c", "d"}}

Ext(type, len, name) == [type |-> type, len |-> len, name |-> name]
MCHellos ==
    [session : {0, 2}, ciphers : {0, 2},
     exts : {<<>>, <<Ext(0, 0, <<65, 66>>)>>, <<Ext(5, 3, <<>>), Ext(0, 0, <<65>>)>>,
             <<Ext(16, 0, <<>>), Ext(5, 2, <<>>), Ext(0, 0, <<65, 66>>), Ext(43, 1, <<>>)>>,
             <<Ext(5, 1, <<>>)>>}]

-----------------------------------------------------------------------------
(* UDP: a catch-all of higher priority beside a specific route.            *)

MCUdpRoutes ==
    [catchAll : {TRUE}, ips : {{}}, priority : {1}, known : {TRUE}]
    \cup [catchAll : {FALSE}, ips : {Clients}, priority : {0}, known : {TRUE}]

-----------------------------------------------------------------------------
VARIABLE part

mcVars == <<part, httpVars, routingVars, tunVars, acmeVars, udpVars>>

MCInit ==
    /\ part \in {"http", "routing", "tunnel", "acme", "udp"}
    /\ HttpInit /\ UdpInit
    /\ IF part = "routing" THEN RoutingInit ELSE probe = [kind |-> "none"] /\ found = <<>>
    /\ TunInit /\ (part # "tunnel" => kind = "ws" /\ ~tls)
    /\ AcmeInit /\ (part # "acme" => \A s \in DomainSets : disk[s] = Life)

HttpOn == part = "http" /\ UNCHANGED <<part, routingVars, tunVars, acmeVars, udpVars>>
RoutingOn == part = "routing" /\ UNCHANGED <<part, httpVars, tunVars, acmeVars, udpVars>>
TunnelOn == part = "tunnel" /\ UNCHANGED <<part, httpVars, routingVars, acmeVars, udpVars>>
AcmeOn == part = "acme" /\ UNCHANGED <<part, httpVars, routingVars, tunVars, udpVars>>
UdpOn == part = "udp" /\ UNCHANGED <<part, httpVars, routingVars, tunVars, acmeVars>>

MCNext ==
    \/ HttpOn /\ HttpNext
    \/ RoutingOn /\ RoutingNext
    \/ TunnelOn /\ TunNext
    \/ AcmeOn /\ AcmeNext
    \/ UdpOn /\ UdpNext

(* The fairness of the specifications, each for its own part. *)
MCFairness ==
    /\ WF_httpVars(part = "http" /\ HttpStep)
    /\ WF_tunVars(part = "tunnel" /\ SetupStep)
    /\ \A d \in Ways : WF_tunVars(part = "tunnel" /\ CopyStep(d))
    /\ WF_acmeVars(part = "acme" /\ PassStep) /\ WF_acmeVars(part = "acme" /\ OrderStep)
    /\ WF_acmeVars(part = "acme" /\ QuietTick)
    /\ \A s \in DomainSets :
          /\ SF_acmeVars(part = "acme" /\ Validate(s)) /\ WF_acmeVars(part = "acme" /\ Renew(s))
          /\ WF_acmeVars(part = "acme" /\ Finalize(s) /\ order'.step = "store")
    /\ WF_udpVars(part = "udp" /\ (Collect \/ SweepOut)) /\ WF_udpVars(part = "udp" /\ UdpTick)
    /\ \A t \in Tasks : WF_udpVars(part = "udp" /\ TaskGoesOn(t))
    /\ \A k \in Socks : WF_udpVars(part = "udp" /\ ListenerGoesOn(k))

MCSpec == MCInit /\ [][MCNext]_mcVars /\ MCFairness

(* Every request is answered, and what is said through a tunnel gets there. *)
TrafficAnswered == EveryRequestAnswered /\ TunnelMoves
=============================================================================
