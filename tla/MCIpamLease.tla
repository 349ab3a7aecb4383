---------------------------- MODULE MCIpamLease ----------------------------
(* The module the configurations of IpamLease are checked with: each gives *)
(* the constants their values.                                             *)
EXTENDS IpamLease
=============================================================================
