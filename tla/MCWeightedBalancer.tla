------------------------- MODULE MCWeightedBalancer -------------------------
(***************************************************************************)
(* The server list of the runs of WeightedBalancer: LoadBalancer uses it   *)
(* only for lists whose weights differ.                                    *)
(***************************************************************************)
EXTENDS WeightedBalancer

Pair == <<2, 1>>
=============================================================================
