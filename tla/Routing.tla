------------------------------ MODULE Routing ------------------------------
(***************************************************************************)
(* How a request or a connection finds its route: the HTTP router and its  *)
(* indexes (router/mod.rs), the rules and their parser (router/rule.rs),   *)
(* the TCP router (tcp/router.rs) and the SNI parser of the TCP proxy      *)
(* (tcp/proxy.rs).  All of it is pure: a behaviour picks one question and  *)
(* one step answers it.                                                    *)
(*                                                                         *)
(* Hosts are sequences of labels, so that "*.x" is <<"*", "x">>; a rule's  *)
(* text is a sequence of tokens in which a matcher call is one token; a    *)
(* regular expression is the set of the values it matches; headers and the *)
(* parameters of a query, decoded, are sets of pairs.                      *)
(***************************************************************************)
EXTENDS Naturals, Sequences, SequencesExt, FiniteSets

CONSTANTS
    HttpProbes,   \* [routes, ep, host, path, method, hdr, query]: routes in iteration order
    RuleTrees,    \* rules to write down and parse
    TcpProbes,    \* [routes, ep, sni, ip]
    Hellos,       \* [session, ciphers, exts]: the variable parts of a ClientHello
    RandomLen     \* bytes of the version and the random of a ClientHello

VARIABLES
    probe,        \* the question
    found         \* its answer, once given: a sequence of at most one

routingVars == <<probe, found>>

NoHost == <<>>
NoMatch == [name |-> "none"]

-----------------------------------------------------------------------------
(* Rules.                                                                  *)

RECURSIVE RuleMatches(_, _)
RuleMatches(rule, r) ==
    CASE rule.op \in {"host", "hostRegex"} -> r.host # NoHost /\ r.host \in rule.vals
      [] rule.op \in {"path", "pathRegex"} -> r.path \in rule.vals
      [] rule.op = "pathPrefix" -> \E p \in rule.vals : IsPrefix(p, r.path)
      [] rule.op \in {"header", "headerRegex"} -> r.hdr \cap rule.vals # {}
      [] rule.op = "query" -> r.query \cap rule.vals # {}
      [] rule.op = "method" -> r.method \in rule.vals
      [] rule.op = "and" -> RuleMatches(rule.a, r) /\ RuleMatches(rule.b, r)
      [] rule.op = "or" -> RuleMatches(rule.a, r) \/ RuleMatches(rule.b, r)
      [] rule.op = "not" -> ~RuleMatches(rule.a, r)

\* The hosts a rule is indexed by: only those it insists on.
RECURSIVE ExtractHosts(_)
ExtractHosts(rule) ==
    CASE rule.op = "host" -> rule.vals
      [] rule.op = "and" -> ExtractHosts(rule.a) \cup ExtractHosts(rule.b)
      [] OTHER -> {}

-----------------------------------------------------------------------------
(* The parser.                                                             *)

Failure == [op |-> "error"]
IsAtom(t) == t \notin {"(", ")", "!", "&&", "||"}

Depth(s, i) == Cardinality({j \in 1 .. i : s[j] = "("}) - Cardinality({j \in 1 .. i : s[j] = ")"})

\* The first occurrence of the operator outside parentheses, 0 if there is none.
FindOperator(s, op) ==
    LET hits == {i \in DOMAIN s : s[i] = op /\ Depth(s, i) = 0}
    IN  IF hits = {} THEN 0 ELSE CHOOSE i \in hits : \A j \in hits : i <= j

\* A call is read from its name and the closing parenthesis at the very end;
\* what stands between is searched for quoted arguments only.
ParseFunction(s) ==
    IF s # <<>> /\ IsAtom(s[1]) /\ (IsAtom(Last(s)) \/ Last(s) = ")")
    THEN [op |-> "atom", atom |-> s[1]] ELSE Failure

Both(op, a, b) == IF Failure \in {a, b} THEN Failure ELSE [op |-> op, a |-> a, b |-> b]

RECURSIVE ParseOr(_), ParseAnd(_), ParseUnary(_)
ParseUnary(s) ==
    CASE s # <<>> /\ Head(s) = "!" ->
             LET inner == ParseUnary(Tail(s))
             IN  IF inner = Failure THEN Failure ELSE [op |-> "not", a |-> inner]
      [] s # <<>> /\ Head(s) = "(" /\ Last(s) = ")" -> ParseOr(SubSeq(s, 2, Len(s) - 1))
      [] OTHER -> ParseFunction(s)

ParseAnd(s) ==
    LET i == FindOperator(s, "&&")
    IN  IF i = 0 THEN ParseUnary(s)
        ELSE Both("and", ParseAnd(SubSeq(s, 1, i - 1)), ParseAnd(SubSeq(s, i + 1, Len(s))))

ParseOr(s) ==
    LET i == FindOperator(s, "||")
    IN  IF i = 0 THEN ParseAnd(s)
        ELSE Both("or", ParseOr(SubSeq(s, 1, i - 1)), ParseOr(SubSeq(s, i + 1, Len(s))))

\* A rule written with the fewest parentheses that the precedence of !, && and
\* || requires.
RECURSIVE Write(_)
Write(t) ==
    LET In(x, ops) == IF x.op \in ops THEN <<"(">> \o Write(x) \o <<")">> ELSE Write(x)
    IN  CASE t.op = "atom" -> <<t.atom>>
          [] t.op = "not" -> <<"!">> \o In(t.a, {"and", "or"})
          [] t.op = "and" -> In(t.a, {"or"}) \o <<"&&">> \o In(t.b, {"or"})
          [] t.op = "or" -> Write(t.a) \o <<"||">> \o Write(t.b)

RECURSIVE Holds(_, _)
Holds(t, true) ==
    CASE t.op = "atom" -> t.atom \in true
      [] t.op = "not" -> ~Holds(t.a, true)
      [] t.op = "and" -> Holds(t.a, true) /\ Holds(t.b, true)
      [] t.op = "or" -> Holds(t.a, true) \/ Holds(t.b, true)
      [] OTHER -> FALSE

-----------------------------------------------------------------------------
(* The HTTP router.                                                        *)

\* routes.sort_by: higher priority first, stable.
ByPriority(routes) ==
    LET rank == SetToSortSeq(DOMAIN routes, LAMBDA i, j :
                     \/ routes[i].priority > routes[j].priority
                     \/ routes[i].priority = routes[j].priority /\ i < j)
    IN  [i \in DOMAIN routes |-> routes[rank[i]]]

HostIndexed(r) == ExtractHosts(r.rule) # {}
OnEntrypoint(r, ep) == r.eps = {} \/ ep \in r.eps

\* Two lists sorted by priority, merged; on a tie the entrypoint's own comes first.
RECURSIVE Merge(_, _)
Merge(own, all) ==
    CASE own = <<>> -> all
      [] all = <<>> -> own
      [] Head(own).priority >= Head(all).priority -> <<Head(own)>> \o Merge(Tail(own), all)
      [] OTHER -> <<Head(all)>> \o Merge(own, Tail(all))

\* The candidates of an entrypoint; one that no route names has the catch-alls.
Candidates(routes, ep) ==
    LET all == SelectSeq(routes, LAMBDA rt : rt.eps = {})
        own == SelectSeq(routes, LAMBDA rt : ep \in rt.eps)
    IN  IF own = <<>> THEN all ELSE Merge(own, all)

FirstOf(routes) == IF routes = <<>> THEN NoMatch ELSE Head(routes)

\* Host-indexed routes first, then the others in order of priority.
MatchRequest(q) ==
    LET routes == ByPriority(q.routes)
        byHost == SelectSeq(routes, LAMBDA rt :
                      /\ q.host # NoHost /\ q.host \in ExtractHosts(rt.rule)
                      /\ OnEntrypoint(rt, q.ep) /\ RuleMatches(rt.rule, q))
        others == SelectSeq(Candidates(routes, q.ep), LAMBDA rt :
                      ~HostIndexed(rt) /\ RuleMatches(rt.rule, q))
    IN  FirstOf(byHost \o others)

-----------------------------------------------------------------------------
(* The TCP router and the SNI parser.                                      *)

\* A wildcard matches every name below the domain and the domain itself.
SniMatches(h, n) ==
    IF h[1] = "*" THEN IsSuffix(Tail(h), n) ELSE h = n

\* A rule's text is its form and its arguments.  A star says nothing about the
\* server name, an address that does not parse nothing about the client, and a
\* rule that says nothing, or is of no known form, matches everything.
TcpRuleParse(text) ==
    LET hosts == text.args \ {<<"*">>}
        nets == text.args \ {"junk"}
    IN  CASE text.form = "HostSNI" /\ hosts # {} -> [op |-> "hostSni", vals |-> hosts]
          [] text.form = "ClientIP" /\ nets # {} -> [op |-> "clientIp", vals |-> nets]
          [] OTHER -> [op |-> "catchAll", vals |-> {}]

TcpRuleMatches(rule, q) ==
    CASE rule.op = "catchAll" -> TRUE
      [] rule.op = "hostSni" -> q.sni # NoHost /\ \E h \in rule.vals : SniMatches(h, q.sni)
      [] rule.op = "clientIp" -> q.ip \in rule.vals

\* Of the catch-alls of an entrypoint the first with the highest priority is
\* kept; it is tried after all others, whatever its priority.
MatchConnection(q) ==
    LET here == SelectSeq(q.routes, LAMBDA rt : OnEntrypoint(rt, q.ep))
        IsCatchAll(rt) == TcpRuleParse(rt.rule).op = "catchAll"
        own == SelectSeq(ByPriority(here), LAMBDA rt :
                   ~IsCatchAll(rt) /\ TcpRuleMatches(TcpRuleParse(rt.rule), q))
        all == SelectSeq(ByPriority(here), IsCatchAll)
    IN  FirstOf(own \o all)

\* The bytes of a length of two bytes, and of a ClientHello with the given parts.
U16(n) == <<n \div 256, n % 256>>
Rep(n) == [i \in 1 .. n |-> 7]
WriteSni(name) == U16(Len(name) + 3) \o <<0>> \o U16(Len(name)) \o name
WriteExt(e) ==
    LET body == IF e.type = 0 THEN WriteSni(e.name) ELSE Rep(e.len)
    IN  U16(e.type) \o U16(Len(body)) \o body
WriteHello(h) ==
    LET exts == FoldLeft(LAMBDA acc, e : acc \o WriteExt(e), <<>>, h.exts)
    IN  <<1, 0, 0, 0>> \o Rep(RandomLen) \o <<h.session>> \o Rep(h.session)
          \o U16(h.ciphers) \o Rep(h.ciphers) \o <<1, 0>> \o U16(Len(exts)) \o exts

\* data[o] and the two-byte number at o, o counted from 0 as in the source.
ByteAt(d, o) == d[o + 1]
WordAt(d, o) == 256 * d[o + 1] + d[o + 2]

\* The name in an SNI extension: the first entry, if it is a host name.
ParseSniExtension(d) ==
    IF Len(d) < 5 \/ ByteAt(d, 2) # 0 \/ 5 + WordAt(d, 3) > Len(d) THEN NoHost
    ELSE SubSeq(d, 6, 5 + WordAt(d, 3))

\* Mutant: the type and length of an extension are not skipped.
RECURSIVE WalkExtensionsShort(_, _, _)
WalkExtensionsShort(d, o, end) ==
    IF o + 4 > end THEN NoHost
    ELSE LET len == WordAt(d, o + 2)
         IN  IF WordAt(d, o) = 0 THEN ParseSniExtension(SubSeq(d, o + 5, o + 4 + len))
             ELSE WalkExtensionsShort(d, o + len, end)

RECURSIVE WalkExtensions(_, _, _)
WalkExtensions(d, o, end) ==
    IF o + 4 > end THEN NoHost
    ELSE LET len == WordAt(d, o + 2)
         IN  IF WordAt(d, o) = 0 THEN ParseSniExtension(SubSeq(d, o + 5, o + 4 + len))
             ELSE WalkExtensions(d, o + 4 + len, end)

\* The offsets of parse_sni, one per field skipped; each is checked against the
\* length of what was peeked before it is read.
ParseSni(d) ==
    LET o1 == 4 + RandomLen
        o2 == o1 + 1 + ByteAt(d, o1)
        o3 == o2 + 2 + WordAt(d, o2)
        o4 == o3 + 1 + ByteAt(d, o3)
        end == o4 + 2 + WordAt(d, o4)
    IN  IF Len(d) <= o1 \/ ByteAt(d, 0) # 1 THEN NoHost
        ELSE IF o2 + 2 > Len(d) THEN NoHost
        ELSE IF o3 + 1 > Len(d) THEN NoHost
        ELSE IF o4 + 2 > Len(d) THEN NoHost
        ELSE IF end > Len(d) THEN NoHost
        ELSE WalkExtensions(d, o4 + 2, end)

-----------------------------------------------------------------------------
(* One question per behaviour.                                             *)

RoutingInit ==
    /\ probe \in ([kind : {"http"}, q : HttpProbes] \cup [kind : {"rule"}, q : RuleTrees]
                    \cup [kind : {"tcp"}, q : TcpProbes] \cup [kind : {"sni"}, q : Hellos])
    /\ found = <<>>

Answer(value) == found = <<>> /\ found' = <<value>> /\ UNCHANGED probe

AskHttp == probe.kind = "http" /\ Answer(MatchRequest(probe.q))
AskRule == probe.kind = "rule" /\ Answer(ParseOr(Write(probe.q)))
AskTcp == probe.kind = "tcp" /\ Answer(MatchConnection(probe.q))

\* What is parsed is the peek buffer: the hello and unused bytes after it, or
\* the first part of one that is longer than the buffer can be.
AskSni ==
    /\ probe.kind = "sni"
    /\ LET hello == WriteHello(probe.q)
       IN  \E size \in 0 .. Len(hello) + 2 :
             Answer(<<size >= Len(hello), ParseSni(SubSeq(hello \o <<0, 0>>, 1, size))>>)

RoutingNext == AskHttp \/ AskRule \/ AskTcp \/ AskSni

RoutingSpec == RoutingInit /\ [][RoutingNext]_routingVars

-----------------------------------------------------------------------------
(* Properties.                                                             *)

\* The routes of a probe that could serve it, indexes or not.
Fitting(q) == {rt \in Range(q.routes) : OnEntrypoint(rt, q.ep) /\ RuleMatches(rt.rule, q)}

\* The host index and the merged candidate lists lose no route and add none:
\* a request finds a route exactly when some route of its entrypoint matches,
\* the route found is one of them, and none of the same kind (indexed by host
\* or not) has a higher priority (Router::match_request, router/mod.rs:130).
IndexesAreExact ==
    probe.kind = "http" /\ found # <<>> =>
        LET fit == Fitting(probe.q) IN
        IF found[1] = NoMatch THEN fit = {}
        ELSE /\ found[1] \in fit
             /\ \A rt \in fit : HostIndexed(rt) = HostIndexed(found[1])
                                  => rt.priority <= found[1].priority

\* A rule means what its operators' precedence says: parsing the text of a rule
\* gives a rule that holds for the same requests (RuleParser, router/rule.rs:171).
RulesMeanWhatTheySay ==
    probe.kind = "rule" /\ found # <<>> =>
        /\ found[1] # Failure
        /\ \A true \in SUBSET {"p", "q", "r"} : Holds(found[1], true) = Holds(probe.q, true)

\* A connection whose server name or address some route asks for never goes to
\* a route that asks for nothing, and one with no such route goes to one of those
\* if there is one; priority decides among the candidates
\* (TcpRouter::match_connection, tcp/router.rs:203).
TcpSpecificFirst ==
    probe.kind = "tcp" /\ found # <<>> =>
        LET q == probe.q
            here == {rt \in Range(q.routes) : OnEntrypoint(rt, q.ep)}
            Asks(rt) == \/ rt.rule.form = "HostSNI" /\ rt.rule.args # {<<"*">>}
                        \/ rt.rule.form = "ClientIP" /\ rt.rule.args # {"junk"}
            Named(rt) == \/ rt.rule.form = "ClientIP" /\ q.ip \in rt.rule.args
                         \/ rt.rule.form = "HostSNI" /\ \E h \in rt.rule.args \ {<<"*">>} :
                                \/ h = q.sni
                                \/ /\ h[1] = "*" /\ q.sni # NoHost
                                   /\ \E k \in 0 .. Len(q.sni) :
                                          Tail(h) = SubSeq(q.sni, k + 1, Len(q.sni))
            named == {rt \in here : Named(rt)}
            ok == IF named # {} THEN named ELSE {rt \in here : ~Asks(rt)}
        IN  IF found[1] = NoMatch THEN ok = {}
            ELSE found[1] \in ok /\ \A rt \in ok : rt.priority <= found[1].priority

\* A ClientHello that arrived whole is routed by the server name it carries,
\* wherever the extension stands and however long the fields before it are, and
\* a part of one never yields another name (parse_sni, tcp/proxy.rs:176).
SniIsTheOneSent ==
    probe.kind = "sni" /\ found # <<>> =>
        LET named == SelectSeq(probe.q.exts, LAMBDA e : e.type = 0)
            name == IF named = <<>> THEN NoHost ELSE named[1].name
        IN  found[1][2] \in (IF found[1][1] THEN {name} ELSE {name, NoHost})

\* Routes are found as a plain reading of the configuration says: through the
\* indexes of the HTTP router, the rule parser, the TCP router's two lists and
\* the ClientHello parser.
RoutesExact ==
    IndexesAreExact /\ RulesMeanWhatTheySay /\ TcpSpecificFirst /\ SniIsTheOneSent
=============================================================================
