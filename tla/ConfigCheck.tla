---------------------------- MODULE ConfigCheck -----------------------------
(***************************************************************************)
(* Config::validate (src/config/mod.rs) against what the program makes of  *)
(* a configuration it accepted: the balancers of ServiceManager::new       *)
(* (src/service/manager.rs, src/balancer/mod.rs) and the middlewares of    *)
(* MiddlewareRegistry (src/middleware/registry.rs).  A reference may carry *)
(* a provider's name, as in auth@file.                                     *)
(***************************************************************************)
EXTENDS Integers, Sequences, FiniteSets

CONSTANTS
  WeightLists, \* the lists of weights of servers or services
  Names,    \* names of services, of middlewares and of entry points
  Called,   \* the name of the service, one of them
  NoName    \* a name that is left out

ASSUME ConfConfig == WeightLists \subseteq Seq(Nat)

Protocols == {"http", "tcp", "udp"}

\* A service of a configuration: which of its parts is present, and for each
\* the length of its list of servers or services.
Kinds == {"loadBalancer", "weighted", "mirroring", "failover", "none"}
Lists ==
  {l \in [kind : Kinds, weights : WeightLists, urls : BOOLEAN] :
     /\ l.urls \/ l.kind = "loadBalancer"
     /\ l.weights = << >> \/ l.kind \notin {"failover", "none"}}
Refs == [name : Names, provider : BOOLEAN]

VARIABLES
  conf,   \* the configuration
  made    \* what became of it, << >> before it was loaded

confVars == <<conf, made>>

\* One service, one middleware and one router of one protocol; entry points.
Configs ==
  [proto : Protocols, points : {{}, {Called}}, service : Lists,
   mw : Names \cup {NoName}, supported : BOOLEAN,
   route : [service : Names \cup {NoName}, mws : {<< >>} \cup {<<r>> : r \in Refs},
            points : {{}, {Called}}]]

ConfInit == conf \in Configs /\ made = << >>

\* Mutant: the list of servers may be empty.
ServiceValidEmpty(p, s) ==
  CASE s.kind = "loadBalancer" -> p = "http" => s.urls
    [] s.kind = "weighted" -> s.weights # << >>
    [] s.kind = "mirroring" -> p = "http" /\ s.weights # << >>
    [] OTHER -> FALSE

\* A service must have what its kind needs.  Only HTTP has mirroring, and
\* checks URLs; a failover service is one that has none of the three.
ServiceValid(p, s) ==
  CASE s.kind = "loadBalancer" -> s.weights # << >> /\ (p = "http" => s.urls)
    [] s.kind = "weighted" -> s.weights # << >>
    [] s.kind = "mirroring" -> p = "http" /\ s.weights # << >>
    [] OTHER -> FALSE

\* The exact key as it is written, provider included, is never a plain name.
Key(ref) == IF ref.provider THEN <<ref.name, "provider">> ELSE <<ref.name>>
Defined == IF conf.mw = NoName THEN {} ELSE {<<conf.mw>>}

\* Config::validate, the same for each protocol.
ValidateConfig ==
  /\ conf.points # {}
  /\ ServiceValid(conf.proto, conf.service)
  /\ conf.route.service = Called
  /\ \A k \in DOMAIN conf.route.mws :
       <<conf.route.mws[k].name>> \in Defined \/ Key(conf.route.mws[k]) \in Defined
  /\ conf.route.points \subseteq conf.points

\* from_load_balancer: weighted if the weights differ and one is above 1.
StrategyOf(weights) ==
  IF (\E i \in DOMAIN weights : weights[i] > 1)
     /\ (\E i \in 1 .. Len(weights) - 1 : weights[i] # weights[i + 1])
  THEN "weighted" ELSE "roundRobin"

\* ServiceManager::new: only a load balancer gets a balancer.
BalancerOf(s) ==
  IF s.kind = "loadBalancer" THEN [strategy |-> StrategyOf(s.weights), size |-> Len(s.weights)]
  ELSE [strategy |-> "none", size |-> 0]

\* MiddlewareRegistry::from_config keeps the supported kinds, and resolve
\* passes over a reference whose exact key it does not have; which order they
\* run in is module Http's.
Resolve(refs) ==
  {refs[k] : k \in {k \in DOMAIN refs : conf.supported /\ Key(refs[k]) \in Defined}}

\* Config::load and the start of the server.
LoadConf ==
  /\ made = << >>
  /\ made' = IF ValidateConfig
             THEN <<[ok |-> TRUE, balancer |-> BalancerOf(conf.service),
                     mws |-> Resolve(conf.route.mws)]>>
             ELSE <<[ok |-> FALSE]>>
  /\ UNCHANGED conf

ConfNext == LoadConf
ConfSpec == ConfInit /\ [][ConfNext]_confVars

-----------------------------------------------------------------------------
(* Properties *)

\* A router of an accepted configuration has a service to go to, and a balancer
\* that is there has a server: the request path may divide by its length.  (A
\* weighted or mirroring service is accepted and has no balancer.)
AcceptedHasServers ==
  made # << >> /\ made[1].ok =>
    /\ conf.route.service = Called
    /\ conf.service.kind = "loadBalancer" => made[1].balancer.size > 0
    /\ made[1].balancer.strategy = "weighted" => made[1].balancer.size > 1

\* A middleware that an accepted router names is run, unless its kind is not
\* supported or it is named with its provider: validate strips the provider,
\* resolve does not.
NamedIsRun ==
  made # << >> /\ made[1].ok =>
    \A k \in DOMAIN conf.route.mws :
      conf.supported /\ ~conf.route.mws[k].provider => conf.route.mws[k] \in made[1].mws

\* What Config::validate accepts can be run: its routers have servers to go to
\* and the middlewares they name.
AcceptedCanRun == AcceptedHasServers /\ NamedIsRun
=============================================================================
