----------------------------- MODULE MCCluster ------------------------------
(***************************************************************************)
(* The parts of the cluster that share the store and nothing else, for     *)
(* TLC: a behaviour runs one of them, chosen at the start, and the others  *)
(* stay in their first state.                                              *)
(***************************************************************************)
EXTENDS StoreKeys, StoreWindows, RateLimit, ConfigProvider,
        DistributedHealth, Sticky

CONSTANTS SampleDoc   \* what every endpoint serves when providers do not run

VARIABLE part

mcVars == <<part, keyVars, winVars, rateVars, providerVars, healthVars,
            stickyVars>>

MCInit ==
  /\ part \in {"keys", "sliding", "local", "breaker", "bucket",
               "providers", "health", "sticky"}
  /\ KeyInit /\ WinInit /\ RateInit /\ ProviderInit /\ HealthInit /\ StickyInit
  /\ part # "providers" =>
       current = NoDoc /\ served = [p \in Providers |-> SampleDoc]

KeysOn ==
  /\ part = "keys"
  /\ UNCHANGED <<part, winVars, rateVars, providerVars, healthVars, stickyVars>>

NotWindows == UNCHANGED <<part, keyVars, rateVars, providerVars, healthVars, stickyVars>>

SlidingOn ==
  /\ part = "sliding"
  /\ UNCHANGED <<localVars, breakerVars>> /\ NotWindows

LocalOn ==
  /\ part = "local"
  /\ UNCHANGED <<redisVars, breakerVars>> /\ NotWindows

BreakerOn ==
  /\ part = "breaker"
  /\ UNCHANGED <<redisVars, localVars>> /\ NotWindows

BucketOn ==
  /\ part = "bucket"
  /\ UNCHANGED <<part, keyVars, winVars, providerVars, healthVars, stickyVars>>

ProvidersOn ==
  /\ part = "providers"
  /\ UNCHANGED <<part, keyVars, winVars, rateVars, healthVars, stickyVars>>

HealthOn ==
  /\ part = "health"
  /\ UNCHANGED <<part, keyVars, winVars, rateVars, providerVars, stickyVars>>

StickyOn ==
  /\ part = "sticky"
  /\ UNCHANGED <<part, keyVars, winVars, rateVars, providerVars, healthVars>>

MCNext ==
  \/ KeysOn /\ KeyNext
  \/ SlidingOn /\ SlidingNext
  \/ LocalOn /\ LocalNext
  \/ BreakerOn /\ BreakerNext
  \/ BucketOn /\ RateNext
  \/ ProvidersOn /\ ProviderNext
  \/ HealthOn /\ HealthNext
  \/ StickyOn /\ StickyNext

\* Time passes, and a breaker call under way goes on.
BreakerFairness ==
  /\ WF_breakerVars(part = "breaker" /\ BreakerTick)
  /\ \A c \in FailCalls :
       WF_breakerVars(part = "breaker" /\ \E done \in BOOLEAN : Expire(c, done))

\* The ticker of every node goes on, and the store does not fail for ever.
CheckFairness ==
  \A n \in Checkers :
    /\ WF_healthVars(part = "health" /\ StartCheck(n)) /\ WF_healthVars(part = "health" /\ EndCheck(n))
    /\ WF_healthVars(part = "health" /\ Write(n))
    /\ SF_healthVars(part = "health" /\ Write(n) /\ verdict' = Name(view[n]))
    /\ WF_healthVars(part = "health" /\ Follow(n) /\ view'[n] = (verdict # "unhealthy"))

MCSpec ==
  /\ MCInit /\ [][MCNext]_mcVars
  /\ BreakerFairness /\ CheckFairness
=============================================================================
