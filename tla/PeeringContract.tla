--------------------------- MODULE PeeringContract ---------------------------
(***************************************************************************)
(* What the peering of vL3 endpoints promises, without goroutines, locks   *)
(* or messages.  For every ordered pair of endpoints there is at most one  *)
(* attempt to connect, made only while the other side has not been         *)
(* admitted; an endpoint admits another only because of that other's       *)
(* attempt; and an attempt succeeds only if the other side admitted it.    *)
(*                                                                         *)
(* It is what the code keeps to, and less than the README of vl3-nse says  *)
(* in line 16: "if not already connected to it, create a NS connection     *)
(* request".  A pair whose attempts have failed is not connected, and it   *)
(* is not tried again (vl3_connect.go:410).                                *)
(***************************************************************************)
CONSTANT NSE

VARIABLES
  attempt,   \* attempt[n][p]: n's attempt to connect to p
  admitted   \* admitted[p]: the endpoints that p accepted as peers

Init ==
  /\ attempt = [n \in NSE |-> [p \in NSE |-> "none"]]
  /\ admitted = [p \in NSE |-> {}]

(* n starts its only attempt to p; an endpoint never tries itself.         *)
Try(n, p) ==
  /\ n # p
  /\ attempt[n][p] = "none"
  /\ p \notin admitted[n]
  /\ attempt' = [attempt EXCEPT ![n][p] = "trying"]
  /\ UNCHANGED admitted

(* p admits n, which has tried, and is not itself trying n at the moment.  *)
Admit(p, n) ==
  /\ attempt[n][p] # "none"
  /\ attempt[p][n] # "trying"
  /\ admitted' = [admitted EXCEPT ![p] = @ \cup {n}]
  /\ UNCHANGED attempt

Succeed(n, p) ==
  /\ attempt[n][p] = "trying"
  /\ n \in admitted[p]
  /\ attempt' = [attempt EXCEPT ![n][p] = "up"]
  /\ UNCHANGED admitted

(* An attempt may fail on one side although the other side admitted it.    *)
Fail(n, p) ==
  /\ attempt[n][p] = "trying"
  /\ attempt' = [attempt EXCEPT ![n][p] = "failed"]
  /\ UNCHANGED admitted

Next == \E n, p \in NSE : Try(n, p) \/ Admit(p, n) \/ Succeed(n, p) \/ Fail(n, p)

Spec == Init /\ [][Next]_<<attempt, admitted>>
=============================================================================
