--------------------------- MODULE MCVL3Discovery ---------------------------
(* Constants for model-checking VL3Discovery.                              *)
EXTENDS VL3Discovery, TLC

CONSTANTS near, west, far, ip1, ip2

MCHandlerSymmetry == Permutations(Handler)

MCRemotes == <<ip1, ip2>>
MCHomes == near :> Local @@ west :> ip1 @@ far :> ip2
=============================================================================
