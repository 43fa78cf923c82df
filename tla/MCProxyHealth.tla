---------------------------- MODULE MCProxyHealth ----------------------------
(* Instances of ProxyHealth for TLC. *)
EXTENDS ProxyHealth, TLC

CONSTANTS u1, u2, api, web

(* Two services share a backend, and one of them lists it twice. *)
RepeatedAndShared == (api :> <<u1, u1>>) @@ (web :> <<u1>>)
TwoServers == api :> <<u1, u2>>
OneServer == api :> <<u1>>
=============================================================================
