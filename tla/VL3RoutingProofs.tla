-------------------------- MODULE VL3RoutingProofs --------------------------
(***************************************************************************)
(* Proofs about VL3Routing, for any NSEs, pool, environment and server:    *)
(* subnets are disjoint, no route leads astray, and links go both ways.    *)
(***************************************************************************)
EXTENDS VL3Routing, TLAPS

(* Leases are disjoint, and the subnet of an NSE is its lease or else the  *)
(* prefix computed from its environment.                                   *)
LeasesDisjoint ==
  \A n, q \in NSE : n # q => lease[n] \cap lease[q] = {}

SubnetFromLease ==
  /\ \A n \in NSE : phase[n] = "new" => lease[n] = {}
  /\ \A n \in Up : subnet[n] = IF Leased(n) THEN lease[n] ELSE LocalPrefix(n)

(* Only an NSE that was started takes part in the peering, and a request   *)
(* is accepted by one that admitted its caller.                            *)
PeersStarted ==
  \A n, p \in NSE :
    /\ attempt[n][p] # "none" => phase[n] # "new" /\ phase[p] # "new"
    /\ n \in accepted[p] => n \in admitted[p]
    /\ n \in admitted[p] => attempt[n][p] # "none"

(* A route to a peer is to what the peer handed out since its start, or to *)
(* what it was configured with.                                            *)
Announces(r) ==
  /\ phase[r.via] # "new"
  /\ r.to = subnet[r.via] \/ r.to \in Routes[r.via]

RoutesAnnounced ==
  \A n \in NSE : \A r \in config[n] \cup served[n] \cup called[n] : Announces(r)

(* The callee of a link has the route in its configuration before the      *)
(* caller is answered, and in VPP when the configuration was programmed;   *)
(* the caller has its own unless that was undone.                          *)
LinksRouted ==
  /\ \A p \in NSE : updated[p] => config[p] \subseteq served[p]
  /\ \A n, p \in Up :
       /\ n \in accepted[p] => [to |-> subnet[n], via |-> n] \in config[p]
       /\ attempt[n][p] = "up" =>
            /\ n \in accepted[p]
            /\ <<n, p>> \notin undone => [to |-> subnet[p], via |-> p] \in called[n]

Inv == /\ TypeOK /\ LeasesDisjoint /\ SubnetFromLease
       /\ PeersStarted /\ RoutesAnnounced /\ LinksRouted

-----------------------------------------------------------------------------
(* What the environment leads to is a part of the network, whether it      *)
(* parses or not.                                                          *)
LEMMA LocalInNetwork ==
  \A n \in NSE : LocalOctet(n) \in Block /\ LocalPrefix(n) \subseteq Block
<1> SUFFICES ASSUME NEW n \in NSE
             PROVE  LocalOctet(n) \in Block /\ LocalPrefix(n) \subseteq Block
  OBVIOUS
<1>1. /\ PodOctet[n] \in Block \cup {Unset, NotAddress}
      /\ UniqueOctet[n] \in Block \cup {Unset, NotNumber}
      /\ Pool \subseteq Block
  BY RoutingAssumption DEF RoutingAssumption
<1>2. 0 \in Block /\ 20 \in Block
  BY DEF Block
<1>3. LocalOctet(n) \in Block
  BY <1>1, <1>2 DEF LocalOctet
<1> QED
  BY <1>1, <1>3 DEF LocalPrefix

(* Routes to a peer, as its configuration or its subnet gives them.        *)
LEMMA RoutesMade ==
  ASSUME TypeOK, NEW p \in NSE, phase[p] # "new",
         NEW S, S \subseteq DstRoutes(p), subnet[p] \in S
  PROVE  /\ RoutesTo(S, p) \subseteq Route
         /\ \A r \in RoutesTo(S, p) : r.via = p /\ Announces(r)
         /\ [to |-> subnet[p], via |-> p] \in RoutesTo(S, p)
<1>1. subnet[p] \in SUBSET Block
  BY DEF TypeOK
<1>2. \A s \in S : s = subnet[p] \/ s \in Routes[p]
  BY DEF DstRoutes, Announced
<1>3. RoutesTo(S, p) = {[to |-> s, via |-> p] : s \in S}
  BY DEF RoutesTo
<1>4. ASSUME NEW r \in RoutesTo(S, p)
      PROVE  r \in Route /\ r.via = p /\ Announces(r)
  <2>1. PICK s \in S : r = [to |-> s, via |-> p]
    BY <1>3
  <2>2. s \in (SUBSET Block) \cup UNION {Routes[m] : m \in NSE}
    BY <1>1, <1>2
  <2>3. r.to = s /\ r.via = p
    BY <2>1
  <2> QED
    BY <1>2, <2>1, <2>2, <2>3 DEF Route, Announces
<1> QED
  BY <1>3, <1>4

(* The first state.                                                        *)
LEMMA RoutingInit == Init => Inv
BY DEF Init, Peering!Init, Inv, TypeOK, LeasesDisjoint, SubnetFromLease,
       PeersStarted, RoutesAnnounced, LinksRouted, Up

(* An NSE that starts with a subnet of its own has no part in any link.    *)
LEMMA StartKept ==
  ASSUME Inv, NEW n \in NSE, NEW s \in SUBSET Block, Started(n, s),
         NEW l \in Leasable \cup {{}}, lease' = [lease EXCEPT ![n] = l],
         s = IF l # {} THEN l ELSE LocalPrefix(n),
         \A q \in NSE : l \cap lease[q] = {}
  PROVE  Inv'
<1> USE DEF Inv, TypeOK
<1>1. /\ phase[n] = "new" /\ phase' = [phase EXCEPT ![n] = "up"]
      /\ subnet' = [subnet EXCEPT ![n] = s]
      /\ UNCHANGED <<vppVars, peeringVars>>
  BY DEF Started
<1>2. TypeOK'
  BY <1>1 DEF vppVars, peeringVars
<1>3. LeasesDisjoint' /\ SubnetFromLease'
  BY <1>1 DEF LeasesDisjoint, SubnetFromLease, Up, Leased, LocalPrefix, LocalOctet
<1>4. PeersStarted'
  BY <1>1 DEF PeersStarted, peeringVars
<1>5. RoutesAnnounced'
  BY <1>1 DEF RoutesAnnounced, Announces, vppVars
<1>6. LinksRouted'
  BY <1>1 DEF LinksRouted, PeersStarted, Up, vppVars, peeringVars
<1> QED
  BY <1>2, <1>3, <1>4, <1>5, <1>6

(* Sending a configuration that grew by routes that were announced.        *)
LEMMA SentKept ==
  ASSUME Inv, NEW p \in NSE, NEW c \in SUBSET Route, NEW ok \in BOOLEAN, Sent(p, c, ok),
         config[p] \subseteq c, \A r \in c : Announces(r)
  PROVE  /\ config' \in [NSE -> SUBSET Route] /\ served' \in [NSE -> SUBSET Route]
         /\ updated' \in [NSE -> BOOLEAN]
         /\ RoutesAnnounced'
         /\ \A q \in NSE : /\ updated'[q] => config'[q] \subseteq served'[q]
                           /\ config[q] \subseteq config'[q]
<1> USE DEF Inv, TypeOK
<1>1. /\ config' = [config EXCEPT ![p] = c]
      /\ UNCHANGED <<phase, subnet, lease, called, undone>>
  BY DEF Sent
<1>2. PICK v \in SUBSET Route, u \in BOOLEAN :
        /\ served' = [served EXCEPT ![p] = v] /\ updated' = [updated EXCEPT ![p] = u]
        /\ v \subseteq served[p] \cup c
        /\ u => c \subseteq v
  <2>1. CASE /\ served' = [served EXCEPT ![p] = Programmed(@, c)]
             /\ updated' = [updated EXCEPT ![p] = TRUE]
    <3>1. /\ served' = [served EXCEPT ![p] = served[p] \cup c]
          /\ served[p] \cup c \in SUBSET Route
      BY <2>1 DEF Programmed
    <3> QED
      BY <2>1, <3>1
  <2>2. CASE /\ served' = [served EXCEPT ![p] = Undone(@, c)]
             /\ updated' = [updated EXCEPT ![p] = FALSE]
    <3>1. /\ served' = [served EXCEPT ![p] = served[p] \ c]
          /\ served[p] \ c \in SUBSET Route
      BY <2>2 DEF Undone
    <3> QED
      BY <2>2, <3>1
  <2>3. CASE /\ \E v \in Broken(served[p], c) : served' = [served EXCEPT ![p] = v]
             /\ updated' = [updated EXCEPT ![p] = FALSE]
    <3>1. PICK v \in Broken(served[p], c) : served' = [served EXCEPT ![p] = v]
      BY <2>3
    <3>2. PICK kept \in SUBSET c : v = (served[p] \ c) \cup kept
      BY DEF Broken
    <3>3. v \in SUBSET Route /\ v \subseteq served[p] \cup c
      BY <3>2
    <3> QED
      BY <2>3, <3>1, <3>3
  <2> QED
    BY <2>1, <2>2, <2>3 DEF Sent
<1>3. /\ config' \in [NSE -> SUBSET Route] /\ served' \in [NSE -> SUBSET Route]
      /\ updated' \in [NSE -> BOOLEAN]
  BY <1>1, <1>2
<1>4. RoutesAnnounced'
  BY <1>1, <1>2 DEF RoutesAnnounced, Announces
<1>5. \A q \in NSE : /\ updated'[q] => config'[q] \subseteq served'[q]
                     /\ config[q] \subseteq config'[q]
  BY <1>1, <1>2 DEF LinksRouted
<1> QED
  BY <1>3, <1>4, <1>5

(* The callee of a link has the route to its caller in its configuration   *)
(* once it has answered it.                                                *)
LEMMA AcceptKept ==
  ASSUME Inv, NEW n \in NSE, NEW p \in NSE, Accept(p, n)
  PROVE  Inv'
<1> USE DEF Inv, TypeOK
<1> DEFINE R == RoutesTo(Announced(n), n)
           c == config[p] \cup R
<1>1. /\ attempt[n][p] # "none"
      /\ admitted' = [admitted EXCEPT ![p] = @ \cup {n}] /\ UNCHANGED attempt
  BY DEF Accept, Peering!Admit
<1>2. PICK ok \in BOOLEAN :
        /\ Sent(p, c, ok)
        /\ accepted' = IF ok THEN [accepted EXCEPT ![p] = @ \cup {n}] ELSE accepted
  BY DEF Accept
<1>3. UNCHANGED <<phase, subnet, lease, called, undone>> /\ config' = [config EXCEPT ![p] = c]
  BY <1>2 DEF Sent
<1>4. /\ R \subseteq Route /\ \A r \in R : Announces(r)
      /\ [to |-> subnet[n], via |-> n] \in R
  <2>1. phase[n] # "new"
    BY <1>1 DEF PeersStarted
  <2>2. Announced(n) \subseteq DstRoutes(n) /\ subnet[n] \in Announced(n)
    BY DEF DstRoutes, Announced
  <2> HIDE DEF Inv
  <2> QED
    BY <2>1, <2>2, RoutesMade DEF Inv
<1> HIDE DEF R
<1>5. c \in SUBSET Route /\ config[p] \subseteq c /\ \A r \in c : Announces(r)
  BY <1>4 DEF RoutesAnnounced
<1> HIDE DEF c
<1>6. /\ config' \in [NSE -> SUBSET Route] /\ served' \in [NSE -> SUBSET Route]
      /\ updated' \in [NSE -> BOOLEAN]
      /\ RoutesAnnounced'
      /\ \A q \in NSE : /\ updated'[q] => config'[q] \subseteq served'[q]
                        /\ config[q] \subseteq config'[q]
  <2> HIDE DEF Inv, TypeOK
  <2> QED
    BY <1>2, <1>5, SentKept
<1>7. TypeOK'
  BY <1>1, <1>2, <1>3, <1>6
<1>8. LeasesDisjoint' /\ SubnetFromLease'
  BY <1>3 DEF LeasesDisjoint, SubnetFromLease, Up, Leased
<1>9. PeersStarted'
  BY <1>1, <1>2, <1>3 DEF PeersStarted
<1>10. LinksRouted'
  <2>1. [to |-> subnet[n], via |-> n] \in config'[p]
    BY <1>3, <1>4 DEF c
  <2>2. \A q, m \in NSE : m \in accepted'[q] => m \in accepted[q] \/ (m = n /\ q = p)
    BY <1>2
  <2>3. \A q, m \in NSE : m \in accepted[q] => m \in accepted'[q]
    BY <1>2
  <2>4. /\ \A q \in Up, m \in Up : m \in accepted'[q] =>
             [to |-> subnet[m], via |-> m] \in config'[q]
        /\ \A m \in Up, q \in Up : attempt[m][q] = "up" =>
             /\ m \in accepted'[q]
             /\ <<m, q>> \notin undone => [to |-> subnet[q], via |-> q] \in called[m]
    BY <1>6, <2>1, <2>2, <2>3 DEF LinksRouted, Up
  <2> QED
    BY <1>1, <1>3, <1>6, <2>4 DEF LinksRouted, Up
<1> QED
  BY <1>6, <1>7, <1>8, <1>9, <1>10

(* The configuration is sent once more.                                    *)
LEMMA ResendKept ==
  ASSUME Inv, NEW p \in NSE, Resend(p)
  PROVE  Inv'
<1>1. PICK ok \in BOOLEAN : Sent(p, config[p], ok)
  BY DEF Resend
<1>2. /\ UNCHANGED <<phase, subnet, lease, called, undone>>
      /\ UNCHANGED <<attempt, admitted, accepted>>
  BY <1>1 DEF Sent, Resend, peeringVars
<1>3. /\ config' \in [NSE -> SUBSET Route] /\ served' \in [NSE -> SUBSET Route]
      /\ updated' \in [NSE -> BOOLEAN]
      /\ RoutesAnnounced'
      /\ \A q \in NSE : /\ updated'[q] => config'[q] \subseteq served'[q]
                        /\ config[q] \subseteq config'[q]
  <2>1. config[p] \in SUBSET Route /\ \A r \in config[p] : Announces(r)
    BY DEF Inv, TypeOK, RoutesAnnounced
  <2> QED
    BY <1>1, <2>1, SentKept
<1>4. TypeOK'
  BY <1>2, <1>3 DEF Inv, TypeOK
<1>5. LeasesDisjoint' /\ SubnetFromLease' /\ PeersStarted'
  BY <1>2 DEF Inv, LeasesDisjoint, SubnetFromLease, PeersStarted, Up, Leased
<1>6. LinksRouted'
  BY <1>2, <1>3 DEF Inv, LinksRouted, Up
<1> QED
  BY <1>3, <1>4, <1>5, <1>6 DEF Inv

(* What a caller does of its own accord leaves its callees' side alone.    *)
LEMMA CallerKept ==
  ASSUME Inv, NEW n \in NSE, NEW p \in NSE,
         Try(n, p) \/ Failed(n, p) \/ Connected(n, p)
  PROVE  Inv'
<1> USE DEF Inv, TypeOK
<1> DEFINE R == RoutesTo(DstRoutes(p), p)
<1>1. /\ UNCHANGED <<phase, subnet, lease, config, served, updated, admitted, accepted>>
      /\ phase[n] # "new" /\ phase[p] # "new"
  BY DEF Try, Failed, Connected, Peering!Try, Peering!Fail, Peering!Succeed, PeersStarted,
         vppVars
<1>2. /\ R \subseteq Route /\ \A r \in R : Announces(r)
      /\ [to |-> subnet[p], via |-> p] \in R
  <2>1. DstRoutes(p) \subseteq DstRoutes(p) /\ subnet[p] \in DstRoutes(p)
    BY DEF DstRoutes, Announced
  <2> HIDE DEF Inv
  <2> QED
    BY <1>1, <2>1, RoutesMade DEF Inv
<1> HIDE DEF R
<1>3. PICK a \in {"trying", "failed", "up"} : attempt' = [attempt EXCEPT ![n][p] = a]
  BY DEF Try, Failed, Connected, Peering!Try, Peering!Fail, Peering!Succeed
<1>4. /\ attempt[n][p] # "up"
      /\ attempt'[n][p] = "up" => n \in accepted[p]
  BY DEF Try, Failed, Connected, Peering!Try, Peering!Fail, Peering!Succeed
<1>5. PICK v \in SUBSET Route :
        /\ called' = [called EXCEPT ![n] = v]
        /\ undone \subseteq undone' /\ undone' \subseteq undone \cup {<<n, p>>}
        /\ v \subseteq called[n] \cup R
        /\ attempt'[n][p] = "up" /\ <<n, p>> \notin undone' => R \subseteq v
        /\ called[n] \ R \subseteq v
  <2>1. CASE UNCHANGED <<called, undone>> /\ attempt'[n][p] # "up"
    <3>1. called' = [called EXCEPT ![n] = called[n]] /\ called[n] \in SUBSET Route
      BY <2>1
    <3> QED
      BY <2>1, <3>1
  <2>2. CASE called' = [called EXCEPT ![n] = Programmed(@, R)] /\ UNCHANGED undone
    <3>1. /\ called' = [called EXCEPT ![n] = called[n] \cup R]
          /\ called[n] \cup R \in SUBSET Route
      BY <1>2, <2>2 DEF Programmed
    <3> QED
      BY <2>2, <3>1
  <2>3. CASE called' = [called EXCEPT ![n] = Undone(@, R)] /\ undone' = undone \cup {<<n, p>>}
    <3>1. /\ called' = [called EXCEPT ![n] = called[n] \ R]
          /\ called[n] \ R \in SUBSET Route
      BY <2>3 DEF Undone
    <3> QED
      BY <2>3, <3>1
  <2>4. CASE /\ \E v \in Broken(called[n], R) : called' = [called EXCEPT ![n] = v]
             /\ UNCHANGED undone /\ attempt'[n][p] # "up"
    <3>1. PICK v \in Broken(called[n], R) : called' = [called EXCEPT ![n] = v]
      BY <2>4
    <3>2. PICK kept \in SUBSET R : v = (called[n] \ R) \cup kept
      BY DEF Broken
    <3>3. v \in SUBSET Route /\ v \subseteq called[n] \cup R /\ called[n] \ R \subseteq v
      BY <1>2, <3>2
    <3> QED
      BY <2>4, <3>1, <3>3
  <2>5. CASE Try(n, p)
    <3>1. UNCHANGED <<called, undone>> /\ attempt'[n][p] = "trying"
      BY <2>5 DEF Try, Peering!Try, vppVars
    <3> QED
      BY <2>1, <3>1
  <2>6. CASE Failed(n, p)
    BY <2>1, <2>4, <2>6 DEF Failed, Peering!Fail, R
  <2>7. CASE Connected(n, p)
    BY <2>2, <2>3, <2>7 DEF Connected, R
  <2> QED
    BY <2>5, <2>6, <2>7
<1>6. TypeOK'
  <2>1. /\ called' \in [NSE -> SUBSET Route] /\ undone' \subseteq NSE \X NSE
        /\ attempt' \in [NSE -> [NSE -> {"none", "trying", "up", "failed"}]]
    BY <1>3, <1>5
  <2> QED
    BY <1>1, <2>1
<1>7. LeasesDisjoint' /\ SubnetFromLease'
  BY <1>1 DEF LeasesDisjoint, SubnetFromLease, Up, Leased
<1>8. PeersStarted'
  BY <1>1, <1>3 DEF PeersStarted
<1>9. RoutesAnnounced'
  BY <1>1, <1>2, <1>5 DEF RoutesAnnounced, Announces
<1>10. LinksRouted'
  <2>1. \A r \in Route : r \in called[n] /\ r \notin v => r.via = p
    <3>1. \A r \in R : r.via = p
      BY <1>2, RoutesMade DEF R, RoutesTo
    <3> QED
      BY <1>5, <3>1
  <2>2. \A m, q \in Up : attempt'[m][q] = "up" /\ <<m, q>> # <<n, p>> =>
          /\ attempt[m][q] = "up" /\ m \in NSE /\ q \in NSE
          /\ <<m, q>> \notin undone' => <<m, q>> \notin undone
    BY <1>3, <1>5 DEF Up
  <2>3. ASSUME NEW m \in Up, NEW q \in Up, attempt'[m][q] = "up"
        PROVE  /\ m \in accepted[q]
               /\ <<m, q>> \notin undone' => [to |-> subnet[q], via |-> q] \in called'[m]
    <3>1. m \in NSE /\ q \in NSE
      BY DEF Up
    <3>2. CASE <<m, q>> = <<n, p>>
      <4>1. m = n /\ q = p
        BY <3>2
      <4>2. called'[n] = v
        BY <1>5
      <4> QED
        BY <1>2, <1>4, <1>5, <2>3, <4>1, <4>2
    <3>3. CASE <<m, q>> # <<n, p>>
      <4> DEFINE r == [to |-> subnet[q], via |-> q]
      <4>1. /\ m \in accepted[q]
            /\ <<m, q>> \notin undone' => r \in called[m]
        BY <2>2, <2>3, <3>3 DEF LinksRouted
      <4>2. r \in Route /\ r.via = q
        BY <3>1 DEF Route
      <4> HIDE DEF r
      <4>3. <<m, q>> \notin undone' => r \in called'[m]
        <5>1. CASE m # n
          BY <1>5, <3>1, <4>1, <5>1
        <5>2. CASE m = n
          <6>1. q # p
            BY <3>3, <5>2
          <6> QED
            BY <1>5, <2>1, <4>1, <4>2, <5>2, <6>1
        <5> QED
          BY <5>1, <5>2
      <4> QED
        BY <4>1, <4>3 DEF r
    <3> QED
      BY <3>2, <3>3
  <2> QED
    BY <1>1, <2>3 DEF LinksRouted, Up
<1> QED
  BY <1>6, <1>7, <1>8, <1>9, <1>10

(* An NSE that stops takes its routes with it; those to it may be closed.  *)
LEMMA EndKept ==
  ASSUME Inv, NEW n \in NSE, NEW p \in NSE, Stop(n) \/ CloseLink(n, p) \/ Free(n)
  PROVE  Inv'
<1> USE DEF Inv, TypeOK
<1>1. CASE Stop(n)
  <2>1. TypeOK' /\ LeasesDisjoint' /\ SubnetFromLease'
    BY <1>1 DEF Stop, LeasesDisjoint, SubnetFromLease, Up, Leased, LocalPrefix, LocalOctet,
               peeringVars
  <2>2. PeersStarted' /\ RoutesAnnounced'
    BY <1>1 DEF Stop, PeersStarted, RoutesAnnounced, Announces, peeringVars
  <2>3. LinksRouted'
    BY <1>1 DEF Stop, LinksRouted, Up, peeringVars
  <2> QED
    BY <2>1, <2>2, <2>3
<1>2. CASE CloseLink(n, p)
  <2> DEFINE R == RoutesTo(Announced(n), n)
  <2>1. /\ phase[n] = "gone" \/ attempt[n][p] = "failed"
        /\ config' = [config EXCEPT ![p] = @ \ R]
        /\ served' \in {[served EXCEPT ![p] = @ \ R], served}
        /\ accepted' = [accepted EXCEPT ![p] = @ \ {n}]
        /\ UNCHANGED <<phase, subnet, lease, called, updated, undone, attempt, admitted>>
        /\ \A r \in R : r.via = n
    BY <1>2 DEF CloseLink, RoutesTo
  <2> HIDE DEF R
  <2>2. LeasesDisjoint' /\ SubnetFromLease'
    BY <2>1 DEF LeasesDisjoint, SubnetFromLease, Up, Leased
  <2>3. TypeOK'
    BY <2>1
  <2>4. PeersStarted' /\ RoutesAnnounced'
    BY <2>1 DEF PeersStarted, RoutesAnnounced, Announces
  <2>5. LinksRouted'
    <3>1. \A q \in NSE : updated[q] => config'[q] \subseteq served'[q]
      BY <2>1 DEF LinksRouted
    <3>2. \A m, q \in Up : m \in accepted'[q] => [to |-> subnet[m], via |-> m] \in config'[q]
      <4> SUFFICES ASSUME NEW m \in Up, NEW q \in Up, m \in accepted'[q]
                   PROVE  [to |-> subnet[m], via |-> m] \in config'[q]
        OBVIOUS
      <4> DEFINE r == [to |-> subnet[m], via |-> m]
      <4>1. m \in accepted[q] /\ ~(q = p /\ m = n) /\ m \in NSE /\ q \in NSE
        BY <2>1 DEF Up
      <4>2. r \in config[q] /\ r.via = m
        BY <4>1 DEF LinksRouted
      <4> HIDE DEF r
      <4> QED
        BY <2>1, <4>1, <4>2 DEF r
    <3>3. \A m, q \in Up : attempt[m][q] = "up" => m \in accepted'[q]
      BY <2>1 DEF LinksRouted, Up
    <3> QED
      BY <2>1, <3>1, <3>2, <3>3 DEF LinksRouted, Up
  <2> QED
    BY <2>2, <2>3, <2>4, <2>5
<1>3. CASE Free(n)
  <2>1. TypeOK' /\ LeasesDisjoint' /\ SubnetFromLease'
    BY <1>3 DEF Free, LeasesDisjoint, SubnetFromLease, Up, Leased, LocalPrefix, LocalOctet,
               vppVars, peeringVars
  <2>2. PeersStarted' /\ RoutesAnnounced' /\ LinksRouted'
    BY <1>3 DEF Free, PeersStarted, RoutesAnnounced, Announces, LinksRouted, Up,
               vppVars, peeringVars
  <2> QED
    BY <2>1, <2>2
<1> QED
  BY <1>1, <1>2, <1>3

(* Every step.                                                             *)
LEMMA RoutingStep == Inv /\ [Next]_vars => Inv'
<1> SUFFICES ASSUME Inv, [Next]_vars PROVE Inv'
  OBVIOUS
<1>1. ASSUME NEW n \in NSE, StartLeased(n) PROVE Inv'
  <2>1. PICK s \in Leasable : /\ \A q \in NSE : s \cap lease[q] = {}
                              /\ Started(n, s)
                              /\ lease' = [lease EXCEPT ![n] = s]
    BY <1>1 DEF StartLeased
  <2>2. s \in SUBSET Block /\ s # {}
    BY RoutingAssumption DEF RoutingAssumption
  <2> QED
    BY <2>1, <2>2, StartKept
<1>2. ASSUME NEW n \in NSE, StartLocal(n) PROVE Inv'
  <2>1. Started(n, LocalPrefix(n)) /\ UNCHANGED lease
    BY <1>2 DEF StartLocal
  <2>2. lease' = [lease EXCEPT ![n] = {}]
    BY <2>1 DEF Started, Inv, TypeOK, SubnetFromLease
  <2>3. LocalPrefix(n) \in SUBSET Block
    BY LocalInNetwork
  <2>4. /\ {} \in Leasable \cup {{}}
        /\ LocalPrefix(n) = IF {} # {} THEN {} ELSE LocalPrefix(n)
        /\ \A q \in NSE : {} \cap lease[q] = {}
    OBVIOUS
  <2> QED
    BY ONLY Inv, <2>1, <2>2, <2>3, <2>4, StartKept
<1>3. ASSUME NEW n \in NSE, Resend(n) \/ Stop(n) \/ Free(n) PROVE Inv'
  BY <1>3, EndKept, ResendKept
<1>4. ASSUME NEW n \in NSE, NEW p \in NSE,
             Try(n, p) \/ Accept(p, n) \/ Connected(n, p) \/ Failed(n, p) \/ CloseLink(n, p)
      PROVE Inv'
  BY <1>4, AcceptKept, CallerKept, EndKept
<1>5. CASE UNCHANGED vars
  <2>1. TypeOK' /\ LeasesDisjoint' /\ SubnetFromLease'
    BY <1>5 DEF vars, vppVars, peeringVars, Inv, TypeOK, LeasesDisjoint, SubnetFromLease,
                Up, Leased
  <2>2. PeersStarted' /\ RoutesAnnounced' /\ LinksRouted'
    BY <1>5 DEF vars, vppVars, peeringVars, Inv, PeersStarted, RoutesAnnounced, Announces,
                LinksRouted, Up
  <2> QED
    BY <2>1, <2>2 DEF Inv
<1> QED
  BY <1>1, <1>2, <1>3, <1>4, <1>5 DEF Next

-----------------------------------------------------------------------------
(* The inductive invariant holds.                                          *)
THEOREM RoutingInvariant == Spec => []Inv
BY RoutingInit, RoutingStep, PTL DEF Spec

(* Every variable keeps its type: in particular, no environment makes a    *)
(* subnet outside of the network.                                          *)
THEOREM RoutingTypeCorrect == Spec => []TypeOK
<1>1. Inv => TypeOK
  BY DEF Inv
<1> QED
  BY <1>1, RoutingInvariant, PTL

(* Two running NSEs with leases of one server, or with different octets of *)
(* a large pool, hand out different addresses.                             *)
LEMMA Disjoint == Inv => SubnetsDisjoint
<1> SUFFICES ASSUME Inv, NEW n \in Up, NEW q \in Up, n # q, Separated(n, q)
             PROVE  subnet[n] \cap subnet[q] = {}
  BY DEF SubnetsDisjoint
<1>1. n \in NSE /\ q \in NSE
  BY DEF Up
<1>2. /\ subnet[n] = IF Leased(n) THEN lease[n] ELSE LocalPrefix(n)
      /\ subnet[q] = IF Leased(q) THEN lease[q] ELSE LocalPrefix(q)
  BY DEF Inv, SubnetFromLease
<1>3. CASE Leased(n) /\ Leased(q)
  BY <1>1, <1>2, <1>3 DEF Inv, LeasesDisjoint
<1>4. CASE ~Leased(n) /\ ~Leased(q) /\ PoolOnes <= 16 /\ LocalOctet(n) # LocalOctet(q)
  BY <1>2, <1>4 DEF LocalPrefix
<1> QED
  BY <1>3, <1>4 DEF Separated

(* getIpamPrefixesForVl3 and buildIpPrefixFromLocal: separate sources give *)
(* separate subnets, through any number of starts, stops and new leases.   *)
THEOREM SubnetsAreDisjoint == Spec => []SubnetsDisjoint
BY Disjoint, RoutingInvariant, PTL

(* ProcessClient, ProcessEndpoint: no running NSE sends the addresses of   *)
(* one running NSE to another.                                             *)
THEOREM RoutesLeadHome == Spec => []NoStrayRoute
<1>1. Inv => NoStrayRoute
  <2> SUFFICES ASSUME Inv, RoutesLeadOut, NEW n \in Up,
                      NEW r \in served[n] \cup called[n], r.via \in Up,
                      NEW q \in Up \ {r.via}, Separated(r.via, q)
               PROVE  r.to \cap subnet[q] = {}
    BY DEF NoStrayRoute
  <2>1. n \in NSE /\ q \in NSE /\ subnet[q] \subseteq Block /\ r.via \in NSE
    BY DEF Inv, TypeOK, Up
  <2>2. CASE r.to = subnet[r.via]
    BY <2>2, Disjoint DEF SubnetsDisjoint
  <2>3. CASE r.to \in Routes[r.via]
    BY <2>1, <2>3 DEF RoutesLeadOut
  <2> QED
    BY <2>1, <2>2, <2>3 DEF Inv, RoutesAnnounced, Announces
<1> QED
  BY <1>1, RoutingInvariant, PTL

(* The two ends of a link that is up have routes to each other, but for    *)
(* the routes of an Update that failed and was undone: createPeerConnect-  *)
(* ionRequest takes that for a success, and the callee's next successful   *)
(* Update has all the routes of its dpConfig.                              *)
THEOREM LinksGoBothWays == Spec => []BothWays
<1>1. Inv => BothWays
  <2> SUFFICES ASSUME Inv, NEW n \in Up, NEW p \in Up, attempt[n][p] = "up"
               PROVE  /\ <<n, p>> \notin undone => [to |-> subnet[p], via |-> p] \in called[n]
                      /\ updated[p] => [to |-> subnet[n], via |-> n] \in served[p]
    BY DEF BothWays
  <2>1. n \in accepted[p] /\ p \in NSE
    BY DEF Inv, LinksRouted, Up
  <2> QED
    BY <2>1 DEF Inv, LinksRouted
<1> QED
  BY <1>1, RoutingInvariant, PTL
=============================================================================
