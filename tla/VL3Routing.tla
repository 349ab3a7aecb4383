----------------------------- MODULE VL3Routing -----------------------------
(***************************************************************************)
(* The routing domain the vL3 NSEs make together: which part of the        *)
(* address pool each NSE hands out to its clients, and the routes their    *)
(* VPPs have to each other.                                                *)
(*                                                                         *)
(* An NSE gets its subnet when it is assembled (config_endpoints.go): from *)
(* the IPAM server, or computed from its pod's address when there is no    *)
(* server or the server has refused.  A connection request to a peer       *)
(* carries the caller's subnet, its answer the callee's (vl3_connect.go),  *)
(* and each end turns what it got into routes (backend.go).                *)
(*                                                                         *)
(* Addresses are blocks of 256, named by their third octet, as everything  *)
(* here is in one /16 network.  An NSE is one start of a process: it gets  *)
(* a name of its own from NSM.  The peering is PeeringContract, which      *)
(* VL3Peering implements; that a lease outlives its NSE is what IpamLease  *)
(* shows.                                                                  *)
(*                                                                         *)
(* External: the IPAM server, which leases a block to one NSE at a time,   *)
(* and NSM, which closes the connections of an NSE that is gone.           *)
(***************************************************************************)
EXTENDS Integers

CONSTANTS
  NSE,          \* starts of NSEs
  Unset,        \* an environment variable that is not set
  NotNumber,    \* a value that is not a number
  NotAddress,   \* a value that is not an IP address
  PodOctet,     \* PodOctet[n]: third octet of n's NSE_POD_IP
  UniqueOctet,  \* UniqueOctet[n]: NSE_IPAM_UNIQUE_OCTET of n
  PoolOnes,     \* ones in the mask of VL3.IPAM.DefaultPrefixPool
  Pool,         \* the blocks of the DefaultPrefixPool
  Server,       \* the NSEs with an IPAM server
  PrefixLength, \* VL3.IPAM.PrefixLength
  NseControl,   \* fields address and connectivityDomain, "" when empty
  Leasable,     \* the subnets the server has
  MayRefuse,    \* the server may refuse a valid request six times
  Routes,       \* Routes[n]: VL3.IPAM.Routes, prefixes by their blocks
  Finds         \* Finds[n]: the NSEs that n's registry tells it of

Block == 0..255

(* Octets above 255 and IPv6 addresses are kept out: the first make a      *)
(* prefix that is none, the second crash the process (NseStartup).         *)
ASSUME RoutingAssumption ==
  /\ PodOctet \in [NSE -> Block \cup {Unset, NotAddress}]
  /\ UniqueOctet \in [NSE -> Block \cup {Unset, NotNumber}]
  /\ Unset \notin Block /\ NotNumber \notin Block \cup {Unset}
  /\ NotAddress \notin Block \cup {Unset}
  /\ Pool \subseteq Block /\ Server \subseteq NSE
  /\ Leasable \subseteq (SUBSET Block) \ {{}}
  /\ MayRefuse \in BOOLEAN

VARIABLES
  phase,    \* phase[n]: "new", "up" or "gone"
  subnet,   \* subnet[n]: the blocks n hands out, its vL3NetCidr
  lease,    \* lease[n]: what the server has leased to n, {} for nothing
  config,   \* config[p]: routes to p's callers, in its endpoint's dpConfig
  served,   \* served[p]: those in p's VPP
  called,   \* called[n]: routes in n's VPP to the peers it has called
  updated,  \* updated[p]: when p last sent its dpConfig, the Update succeeded
  undone,   \* links <<n, p>> that count as up although n's Update failed
  attempt,  \* attempt[n][p]: n's attempt to connect to p
  admitted, \* admitted[p]: the endpoints that p put in its table as peers
  accepted  \* accepted[p]: those whose request p answered without an error

vppVars == <<config, served, called, updated, undone>>
peeringVars == <<attempt, admitted, accepted>>
vars == <<phase, subnet, lease, vppVars, peeringVars>>

Peering == INSTANCE PeeringContract

Route == [to : (SUBSET Block) \cup UNION {Routes[n] : n \in NSE}, via : NSE]

TypeOK ==
  /\ phase \in [NSE -> {"new", "up", "gone"}]
  /\ subnet \in [NSE -> SUBSET Block]
  /\ lease \in [NSE -> Leasable \cup {{}}]
  /\ config \in [NSE -> SUBSET Route]
  /\ served \in [NSE -> SUBSET Route]
  /\ called \in [NSE -> SUBSET Route]
  /\ updated \in [NSE -> BOOLEAN] /\ undone \subseteq NSE \X NSE
  /\ attempt \in [NSE -> [NSE -> {"none", "trying", "up", "failed"}]]
  /\ admitted \in [NSE -> SUBSET NSE] /\ accepted \in [NSE -> SUBSET NSE]

Init ==
  /\ phase = [n \in NSE |-> "new"]
  /\ subnet = [n \in NSE |-> {}]
  /\ lease = [n \in NSE |-> {}]
  /\ config = [n \in NSE |-> {}]
  /\ served = [n \in NSE |-> {}]
  /\ called = [n \in NSE |-> {}]
  /\ updated = [n \in NSE |-> FALSE] /\ undone = {}
  /\ Peering!Init
  /\ accepted = [n \in NSE |-> {}]

-----------------------------------------------------------------------------
(* The subnet of an NSE.                                                   *)

SubnetRequest ==
  [fqdn |-> NseControl.address, name |-> "cluster_pod",
   connectivityDomain |-> NseControl.connectivityDomain,
   family |-> "IPV4", prefixLen |-> PrefixLength]

IdentifierValid(m) == "" \notin {m.connectivityDomain, m.fqdn, m.name}

(* What the server's API package, ipprovider, calls a valid request.       *)
SubnetRequestValid(m) ==
  /\ IdentifierValid(m)
  /\ m.family = "IPV4" => m.prefixLen \in 2..32
  /\ m.family = "IPV6" => m.prefixLen \in 2..128

(* Mutant: the error of Atoi is not noticed and leaves no octet.           *)
LocalOctetUnchecked(n) ==
  IF UniqueOctet[n] # Unset THEN UniqueOctet[n]
  ELSE IF PodOctet[n] = NotAddress THEN 0
  ELSE IF PodOctet[n] = Unset THEN 20 ELSE PodOctet[n]

(* The unique octet if there is one, and else the third octet of the pod's *)
(* address, 2.2.20.0 by default; 0 for what does not parse.                *)
LocalOctet(n) ==
  IF UniqueOctet[n] # Unset
  THEN IF UniqueOctet[n] = NotNumber THEN 0 ELSE UniqueOctet[n]
  ELSE IF PodOctet[n] = NotAddress THEN 0
  ELSE IF PodOctet[n] = Unset THEN 20 ELSE PodOctet[n]

(* Mutant: a pool of a /16 is taken for a small one.                       *)
LocalPrefixSmall(n) == IF PoolOnes < 16 THEN {LocalOctet(n)} ELSE Pool

(* buildIpPrefixFromLocal: one block of a large pool, all of a small one.  *)
LocalPrefix(n) == IF PoolOnes <= 16 THEN {LocalOctet(n)} ELSE Pool

Started(n, s) ==
  /\ phase[n] = "new"
  /\ phase' = [phase EXCEPT ![n] = "up"]
  /\ subnet' = [subnet EXCEPT ![n] = s]
  /\ UNCHANGED <<vppVars, peeringVars>>

StartLeased(n) ==
  /\ n \in Server /\ SubnetRequestValid(SubnetRequest)
  /\ \E s \in Leasable :
       /\ \A q \in NSE : s \cap lease[q] = {}
       /\ Started(n, s)
       /\ lease' = [lease EXCEPT ![n] = s]

StartLocal(n) ==
  /\ n \in Server /\ SubnetRequestValid(SubnetRequest) => MayRefuse
  /\ Started(n, LocalPrefix(n))
  /\ UNCHANGED lease

-----------------------------------------------------------------------------
(* Peers and routes.                                                       *)

Try(n, p) ==
  /\ phase[n] = "up" /\ phase[p] # "new" /\ p \in Finds[n]
  /\ Peering!Try(n, p)
  /\ UNCHANGED <<phase, subnet, lease, vppVars, accepted>>

(* Mutant: the whole pool is announced, as it is to the clients.           *)
AnnouncedPool(n) == {Pool}

(* What the caller puts in SrcRoutes and the callee in DstRoutes.          *)
Announced(n) == {subnet[n]}

(* The callee adds what its configuration says (makeRouteMutator).         *)
DstRoutes(p) == Announced(p) \cup Routes[p]

RoutesTo(S, p) == {[to |-> s, via |-> p] : s \in S}

(* What becomes of the routes R of a configuration that is sent to VPP,    *)
(* where those in V are.  When the Update fails and the Delete after it    *)
(* does not, no error is returned; when both fail, any of R may be there.  *)
Programmed(V, R) == V \cup R
Undone(V, R) == V \ R
Broken(V, R) == {(V \ R) \cup kept : kept \in SUBSET R}

(* p sends its endpoint's configuration, as c, and ok if that returns no   *)
(* error.                                                                  *)
Sent(p, c, ok) ==
  /\ config' = [config EXCEPT ![p] = c]
  /\ \/ ok /\ served' = [served EXCEPT ![p] = Programmed(@, c)]
           /\ updated' = [updated EXCEPT ![p] = TRUE]
     \/ /\ IF ok THEN served' = [served EXCEPT ![p] = Undone(@, c)]
                  ELSE \E v \in Broken(served[p], c) :
                         served' = [served EXCEPT ![p] = v]
        /\ updated' = [updated EXCEPT ![p] = FALSE]
  /\ UNCHANGED <<phase, subnet, lease, called, undone>>

(* Mutant: every request has a configuration of its own, as at the caller. *)
AcceptSendsNew(p, n) ==
  /\ phase[p] = "up"
  /\ Peering!Admit(p, n)
  /\ \E ok \in BOOLEAN :
       /\ Sent(p, RoutesTo(Announced(n), n), ok)
       /\ accepted' = IF ok THEN [accepted EXCEPT ![p] = @ \cup {n}] ELSE accepted

(* p handles n's request: ProcessEndpoint makes routes of the SrcRoutes,   *)
(* and the whole configuration is sent.                                    *)
Accept(p, n) ==
  /\ phase[p] = "up"
  /\ Peering!Admit(p, n)
  /\ \E ok \in BOOLEAN :
       /\ Sent(p, config[p] \cup RoutesTo(Announced(n), n), ok)
       /\ accepted' = IF ok THEN [accepted EXCEPT ![p] = @ \cup {n}] ELSE accepted

(* The request of a client sends the configuration, too.                   *)
Resend(p) ==
  /\ phase[p] = "up" /\ config[p] # {}
  /\ \E ok \in BOOLEAN : Sent(p, config[p], ok)
  /\ UNCHANGED peeringVars

(* n has the answer: ProcessClient makes routes of the DstRoutes in a      *)
(* configuration of their own.                                             *)
Connected(n, p) ==
  LET R == RoutesTo(DstRoutes(p), p) IN
  /\ phase[n] = "up" /\ n \in accepted[p]
  /\ Peering!Succeed(n, p)
  /\ \/ called' = [called EXCEPT ![n] = Programmed(@, R)] /\ UNCHANGED undone
     \/ called' = [called EXCEPT ![n] = Undone(@, R)] /\ undone' = undone \cup {<<n, p>>}
  /\ UNCHANGED <<phase, subnet, lease, config, served, updated, accepted>>

(* There is no answer, or it cannot be programmed.                         *)
Failed(n, p) ==
  /\ phase[n] = "up"
  /\ Peering!Fail(n, p)
  /\ \/ UNCHANGED called
     \/ /\ n \in accepted[p]
        /\ \E v \in Broken(called[n], RoutesTo(DstRoutes(p), p)) :
             called' = [called EXCEPT ![n] = v]
  /\ UNCHANGED <<phase, subnet, lease, config, served, updated, undone, accepted>>

-----------------------------------------------------------------------------
(* The end of an NSE, or of a connection.                                  *)

Stop(n) ==
  /\ phase[n] = "up"
  /\ phase' = [phase EXCEPT ![n] = "gone"]
  /\ config' = [config EXCEPT ![n] = {}]
  /\ served' = [served EXCEPT ![n] = {}]
  /\ called' = [called EXCEPT ![n] = {}]
  /\ UNCHANGED <<subnet, lease, updated, undone, peeringVars>>

(* NSM closes the connection n made to p, when n is gone or did not keep   *)
(* it: p removes the routes that match the connection's SrcRoutes, in VPP  *)
(* unless that fails.  Of connections to n nobody hears.                   *)
CloseLink(n, p) ==
  LET R == RoutesTo(Announced(n), n) IN
  /\ phase[n] = "gone" \/ attempt[n][p] = "failed"
  /\ phase[p] = "up" /\ n \in admitted[p]
  /\ config' = [config EXCEPT ![p] = @ \ R]
  /\ served' \in {[served EXCEPT ![p] = @ \ R], served}
  /\ accepted' = [accepted EXCEPT ![p] = @ \ {n}]
  /\ UNCHANGED <<phase, subnet, lease, called, updated, undone, attempt, admitted>>

(* The lease of an NSE that is gone is freed, or runs out.                 *)
Free(n) ==
  /\ phase[n] = "gone" /\ lease[n] # {}
  /\ lease' = [lease EXCEPT ![n] = {}]
  /\ UNCHANGED <<phase, subnet, vppVars, peeringVars>>

-----------------------------------------------------------------------------
Next ==
  \/ \E n \in NSE : StartLeased(n) \/ StartLocal(n) \/ Resend(n) \/ Stop(n) \/ Free(n)
  \/ \E n, p \in NSE : \/ Try(n, p) \/ Accept(p, n) \/ Connected(n, p)
                       \/ Failed(n, p) \/ CloseLink(n, p)

Spec == Init /\ [][Next]_vars

-----------------------------------------------------------------------------
(* Properties.                                                             *)

Up == {n \in NSE : phase[n] = "up"}

Leased(n) == lease[n] # {}

(* What the code relies on for two NSEs to have different addresses: one   *)
(* server for both, or a pool that is large enough and different octets.   *)
Separated(n, q) ==
  \/ Leased(n) /\ Leased(q)
  \/ ~Leased(n) /\ ~Leased(q) /\ PoolOnes <= 16 /\ LocalOctet(n) # LocalOctet(q)

(* config_endpoints.go:134 and the IPAM server: NSEs that run at the same  *)
(* time never hand out the same address, also when one takes over what a   *)
(* stopped one had.                                                        *)
SubnetsDisjoint ==
  \A n, q \in Up : n # q /\ Separated(n, q) => subnet[n] \cap subnet[q] = {}

(* The configured Routes lead out of the vL3 network.                      *)
RoutesLeadOut == \A n \in NSE : \A s \in Routes[n] : s \cap Block = {}

(* README of vl3-nse, line 3: "creates a L3 routing domain".  A running    *)
(* NSE sends no address of a running NSE, nor its own, to another one: the *)
(* subnets that were exchanged when the links were made are still those of *)
(* the peers.                                                              *)
NoStrayRoute ==
  RoutesLeadOut =>
    \A n \in Up : \A r \in served[n] \cup called[n] : r.via \in Up =>
      \A q \in Up \ {r.via} : Separated(r.via, q) => r.to \cap subnet[q] = {}

(* README, "source route set to the /24 it handles IPAM for" and "set the  *)
(* destRoutes": a link, whoever asked for it, carries traffic both ways,   *)
(* but for what an Update that failed leaves: a caller whose Update was    *)
(* undone has no route for good, a callee has none until it has sent its   *)
(* configuration once more, for any client or peer, and that has worked.   *)
BothWays ==
  \A n, p \in Up : attempt[n][p] = "up" =>
    /\ <<n, p>> \notin undone => [to |-> subnet[p], via |-> p] \in called[n]
    /\ updated[p] => [to |-> subnet[n], via |-> n] \in served[p]
=============================================================================
