---------------------------- MODULE MCVL3Routing ----------------------------
(* Constants for model-checking VL3Routing.                                *)
EXTENDS VL3Routing, TLC

CONSTANTS a, b, c

(* a's pod has an address, b has the default one, c has an octet that is   *)
(* no number.                                                              *)
MCPodOctet == a :> 7 @@ b :> Unset @@ c :> 7
MCUniqueOctet == a :> Unset @@ b :> Unset @@ c :> NotNumber

(* The pool is a /16, the server leases two /22 networks of it.            *)
MCPool == 0..255
MCLeasable == {0..3, 4..7}

MCControl == [address |-> "control", connectivityDomain |-> "domain"]

(* a is configured with a route to somewhere else.                         *)
MCRoutes == a :> {{256}} @@ b :> {} @@ c :> {}

(* a finds b, b finds a, c finds a.                                        *)
MCFinds == a :> {b} @@ b :> {a} @@ c :> {a}
=============================================================================
