# Verification of nsm-nse

TLA+ models of the network service endpoints (NSEs) of this repository, the TLC runs that
check them on small instances, and TLAPS proofs of what matters most for every instance.
Paths below are relative to the repository (`cmd/...`, `pkg/...`); `PROJECT.json` maps every
definition to its lines.

## 1. Inventory

The repository builds two endpoint programs on the Network Service Mesh (NSM) SDK:
`universal-cnf-vpp`, a generic endpoint that programs VPP, and `vl3-nse`, the same endpoint
with a composite that connects all NSEs of one service to each other (a "virtual layer 3").

| Component | State it keeps | Operations | Modelled in |
|---|---|---|---|
| vL3 peering, `cmd/vl3-nse/vl3_connect.go` | own name; table of peers with a state, an error and a mutex each | `Request` (client, peer), `Close`, discovery goroutines | `VL3Peering`, `PeeringContract`; `VL3Discovery` (queries); `VL3Routing` (subnets and routes) |
| Universal CNF composite, `pkg/universal-cnf/config/composite.go` | one VPP configuration for all clients (`dpConfig`) | `Request`, `Close` | `UcnfDataplane`, `DataplaneContract` |
| VPP agent backend, `pkg/universal-cnf/vppagent/` | last interface number per service | `ProcessEndpoint`, `ProcessClient`, `ProcessDPConfig`, `ResetVppAgent` | `UcnfDataplane`; `VL3Routing` (`ProcessClient`) |
| IPAM lease, `pkg/universal-cnf/config/config_ipam.go` | subnets to free, channel of new subnets | `AllocateSubnet`, `Renew`, `Cleanup` | `IpamLease` |
| Endpoint assembly and lifecycle, `config_endpoints.go`, `ucnf_nse.go`, the two `main` functions | endpoints assembled and started, their names | `NewUcnfNse`, `NewProcessEndpoints`, `Process`, `Cleanup` | `NseStartup`; also `VL3Peering` (the name), `IpamLease` (the lease), `VL3Routing` (the computed prefix) |
| Service registry client, `cmd/vl3-nse/service_registry.go` | a connection per call, a gauge | `RegisterWorkload`, `RemoveWorkload` | `WorkloadRegistry` |
| API validation, `api/serviceregistry/helper.go`, `api/ipam/ipprovider/helper.go` | none | `Validate` of the messages | `WorkloadRegistry`; `VL3Routing` |
| NSE configuration, `pkg/nseconfig/` | none | decode, validate | validation, in `NseStartup` |
| Metrics, `pkg/metrics/` | three counters, a gauge | increment, decrement | the counter of performed requests, the gauge of active workloads |
| Init actions, `config_init.go`, `config.go` | - | not reached by any `main` | not modelled |
| Generated stubs, scripts, charts, images, CI, tests | - | - | not modelled |

How they interact. NSM calls `Request` and `Close` on an endpoint, each call in a goroutine of
its own, through a chain of composites: monitor, connection, IPAM, vL3 (in `vl3-nse`), routes
and DNS, and last the Universal CNF composite, which calls the VPP agent over gRPC. A client's
`Request` makes the vL3 composite ask the NSM registry for its siblings and start a goroutine
that sends each of them a connection request. That request reaches the sibling's own chain as a
`Request` with the label `vl3Nse/nseSource/endpointName`. At start the endpoint leases its
subnet from an IPAM server, and a goroutine renews the lease until the process ends. A workload
that labels itself is registered with a service registry when its `Request` passes the vL3
composite and removed when its `Close` does, each call on a connection of its own.

What is hard here:

- the peer's mutex is held over a call whose handler takes a mutex at the other end; requests
  cross, are abandoned while they are under way, and are repeated by NSM;
- `dpConfig`, its slices and the map of interface numbers are shared by all handlers without a
  lock, and every change is sent as a whole or in part to an agent that may fail half way;
- the endpoint can be called before its own name is stored;
- the renewal, the shutdown and the cleanup of a lease are three goroutines;
- the start-up goes on after a configuration error, and uses what the decoder may have left unset;
- the subnets that NSEs hand out, and the routes between them, are exchanged once per link, while
  NSEs stop, are replaced and get each other's blocks;
- several queries, of several domains, share one table of peers, whose first writer decides where a
  peer is looked for;
- a killed process leaves VPP half programmed and NSM with connections the next one does not know;
- a workload is registered before the rest of its chain is known to succeed, and counted by
  goroutines nobody waits for.

The list of hazards with their lines is in `PROJECT.json`.

What makes each component correct: for the peer table, that an attempt is exclusive, made only
towards a peer with which there is no link, and that both ends agree on what came of it, in their
tables and in VPP; for the data plane, that what NSM believes
connected is in the configuration and in VPP, and what is closed is in neither, so that the whole
is a table of clients; for the routing domain, that running NSEs hand out different addresses and
route each of them to its owner; for the discovery, that every registered peer is reached, where it
registered; for the lease,
that it is held exactly while the endpoint is up; for the start-up, that what validation
accepts runs, and that the orderly end leaves nothing at NSM but what NSM refuses to delete;
for the registry, that it and its gauge follow the connections whatever fails.

## 2. Modules

### VL3Peering, PeeringContract

One copy of the composite per NSE. A *worker* is a discovery goroutine; its `pc` says whether
it is in the loop of `processNsEndpoints`, waits for the peer's mutex, waits for
`ConnectToEndpoint`, or programs the client interface. `state[n][p]`, `connErr[n][p]` and
`holder[n][p]` are the entry of `p` in `n`'s `vl3NsePeers` (`ABSENT`: no entry) and who holds its
mutex. A record in `calls` is a connection request under way, with the label it carries, the
worker that waits for it (or nobody) and how far the callee's handler is; `conns` are the
connections NSM keeps. `performed` is the counter `performed_conn_requests_total` per peer.
`iface[n][p]` is what `n`'s VPP has under the name of `p`: the `client` interface of a link `n` asked
for, or the `endpoint` interface its chain programs for a request of `p`. Both have that name
(`performPeerConnectRequest`, `buildVppIfName`), so that the later one replaces the earlier.
`offered[n]` is who has an interface in the shared `dpConfig` of `n`.

Actions follow the code: `NscRequest` is `Request` from a workload (it sets the own name, asks
the registry, starts a goroutine); `SkipSelf`, `AddPeer`, `LoopEnds`, `VisitKnown` and
`BeginConnect` are the loop and `ConnectPeerEndpoint`; `CallReturns`, `CallFails`,
`CallTimesOut` and `ProgramDone` finish the attempt; `RxAddPeer` and `RxProcess` are the two
critical sections of `Request` from a peer. What follows them in the chain is `RxProgram` (or
`RxRefused`): it runs after the mutex is released, and also for a caller that has given up long ago,
and sends the configuration of all connections, as does every other request (`Resend`). A failed
Update is undone and counts as a success, or is undone in part and counts as a failure (`Updated`,
`ProgramDone`); `UcnfDataplane` has the steps of it. `Close` and `CloseUnkept` are `Close`, of a
connection its caller keeps and of one that nobody does.
NSM is external: it may refuse a request, lose the answer, deliver a request after its caller gave
up, and repeat the request of a connection it keeps. The constants `MayTimeout`, `MayFail` and
`MayRedeliver` switch these behaviours, and `Early` names the endpoints whose name is stored before a
request comes, so that a run can say which of them a property needs.

`PeeringContract` says what this comes to for a pair of NSEs: one attempt at most, admission only
because of the other's attempt and never while one's own attempt is under way, success only if
admitted. `VL3Peering` implements it with the mapping `attemptOf`, `admittedOf`. That there is no
second attempt is what the code does (`vl3_connect.go:410`), not what the README of vl3-nse asks for
in line 16, "if not already connected to it, create a NS connection request": a pair whose attempts
have both failed stays unconnected. `AsksOnlyUnconnected` is the half of that line the code keeps.

Data left out: routes (`VL3Routing`), remote addresses (`VL3Discovery`; where a call is sent does
not change who answers), the workload registration (`WorkloadRegistry`), excluded prefixes, NSM
manager names, metrics other than `performed`.

### VL3Discovery

How an NSE learns of its peers. A handler (`pc`) asks its own domain and then, one after the other,
the remote domains of `NSM_REMOTE_NS_IP_LIST`; `Suffix` is what the code appends to the service
name, which grows with each query. Each answer is worked through by a goroutine of its own
(`left`, `at`): `AddPeer` is the loop's `addPeer`, which leaves an entry that is there as it is,
`ConnectPeer` the visit, which `VL3Peering` has in detail. `entry` is the remote address in the
entry of a peer, `dialled` where its request went. Peers register at any time, and call by
themselves (`RxAddPeer`, `RxProcess`). External is the registry, which knows names with one domain
at most; `MayFail` lets it refuse any query. `AllFound` is what the README of vl3-nse says, and the
code does not do it; `NearFound` is what it does: it says nothing of peers beyond the first remote
domain.

### VL3Routing

The routing domain the NSEs make together. `StartLeased` and `StartLocal` are the two branches of
`NewProcessEndpoints` that give an NSE its subnet, with the request as `ipprovider` validates it and
the computed prefix (`LocalOctet`, `LocalPrefix`) as `buildIpPrefixFromLocal` makes it from the
environment and the pool. Links are those of `PeeringContract`, which `VL3Peering` implements, and
carry routes: the callee adds the caller's subnet to the configuration of all its callers and sends
that (`Accept`, again with every other request in `Resend`), the caller programs the callee's and
what the callee is configured with in a configuration of their own (`Connected`, through
`ProcessClient`, whose error cannot occur as it is always given a `*vpp.ConfigData`). Programming is
what `SendVppConfigToVppAgent` makes of it: routes are there (`Programmed`), or the Update failed and
was undone, which counts as success (`Undone`), or both failed and any of them may be there
(`Broken`). An NSE that stops is `gone`;
NSM closes the links it had made or did not keep, its lease is freed, and others take its place. Addresses are
blocks of 256 of one /16 network, and a pool is what the whole network or a part of it has.
External are NSM and the IPAM server, which leases a block to one NSE at a time (that the lease
lasts as long as its NSE is `IpamLease!HoldsWhileServing`).

### UcnfDataplane, DataplaneContract

The composite's pointer `dp` to a configuration object, the objects in `mem` (the array and the
length of the slice `Interfaces`, the routes, and the NAT lists), the interface counter `ifID`, what the agent
has programmed (`vpp`, interfaces by name), and what NSM was told of each connection (`client`).
A handler goes through the statements of `Request` (nil check, new object, name and read of
the slice, append, `MkdirAll`, routes, send, Update, Delete after a failed Update) or of `Close`
(find, cut, send, Delete). Updates that fail are applied to any subset, and so are Deletes. Elements
of the chain before the composite may refuse a connection of which it then only sees the Close
(`ChainRefuses`).

A connection has one interface and one route. Interfaces of labelled connections have the label's
name, the others a number. With `NatIP` a Request also adds the pool (once), the interface and the
forwarded ports (`ConfigureNat`), which a Close leaves behind. `Restart` kills the process at any
point and starts it again: what it held in memory is gone, what NSM told its clients is not
(`lost`), and the agent is reset (`ResetVppAgent`). A Close that comes before any Request has reached the
composite, of a connection from before a restart or of a refused one, finds no configuration and ends
the process (`FindPanics`); a panic in one handler stops them all. The
composite is last in the chain, so that "not found" in `Close` sends a nil configuration rather
than calling a next handler. Reading the slice header and writing it back are separate steps in
`Request`; the statement that cuts the slice in `Close` and the map accesses of
`GetEndpointIfID` are one step each, which only removes races.

`DataplaneContract` is what this should come to: a table of programmed clients that changes when a
Request or a Close is answered, not when a request is refused, and is emptied by a restart. `UcnfDataplane` with one call at a time
implements it, with the mapping `told` and the clients that have both interface and route.

### IpamLease

The main goroutine (`main`), Renew's select (`renew`), the renewal loop (`loop`), the ticker
(`toTick`, `tick`), and the server's lease (`left`, `freed`), in units of time of which `Hour`
make an hour. `Pass` is one unit: the ticker fires at a fixed rate into a channel of one place.
The only call that takes time is the renewal, at most `MaxDelay` units. Start-up
(`AllocateSucceeds`, `AllocateFails`, `Register`) and the deferred calls of `main`
(`DeleteEndpoints`, `Cancel`, `Exit`, with `CleanUp` in Renew's goroutine) complete it.

### NseStartup

One process, from the configuration file to its end, for either program (`Program`). `main` says
where the main goroutine is: `load` (`OpenFails`, `NewConfig`), `reset` (`ResetVppAgent`, with
`-verify` the last thing done), the loop of `NewProcessEndpoints` (`AssembleLeased`,
`AssembleLocal`, and the four dereferences of `AssemblePanics`), the loop of `Process`
(`StartEndpoint`, then `NameEndpoint`, or `EndpointFails`, which is `log.Fatal`), the wait for a
signal, the deferred `Cleanup`, and one of three ends: `fatal`, `panicked`, `exited`.

An endpoint of the configuration is a record of what the code tells apart: whether it has
labels, an `nseControl` section that is absent, partial or complete, a prefix pool (a subnet of IPv4
or of IPv6 with a mask of 16 or less, a subnet with a longer one, some other text, or empty), valid
routes, and the address of an IPAM server. `octet` is where the process takes the octet of a computed
prefix from, which may be an IPv6 address of the pod. `Valid` is
`Config.validate`. It only decides `accepted`: the process goes on with what it has, as the code
does. Each `Delete` of the clean-up may be refused by NSM (`kept`), which the code ignores.
External are NSM, the agent, the IPAM server and the operator.

`Complete` names what an accepted configuration may still crash on: labels or `nseControl` that are
left out, and IPv6 in the computed prefix. `AcceptedNeverPanics` says that there is nothing else.

### WorkloadRegistry

The handler of each connection at its call of the service registry (`pc`), what the registry
has, the connections for which an error was logged, and the gauge with the goroutines that will
still change it (`incs`, `decs`). `Request` and `Close` follow the composite: a connection without
the four labels (`Labelled`) skips the registry, one whose ports do not parse (`PortsParse`)
fails before the call, an error is logged and the chain goes on. A refused Request leaves its
registration, and a Close that failed may be repeated. The registry has workloads by the identifier
the client sends (`Identifier`), which two connections of one pod share: what follows a connection
one to one asks for an identifier of its own (`Alone`). The message
is built as the client builds it (`ServiceWorkload`) and accepted as the `Validate` methods of its
API say (`ServiceWorkloadValid`): a port out of range or an address without prefix length is
refused. What the
registry and NSM may do beyond that is the constant `Anomalies`: repeat a Request, apply a call
that is answered with an error, or remove what is not there with success.

### MC modules

`MCVL3Peering`, `MCVL3Discovery`, `MCVL3Routing`, `MCUcnfDataplane`, `MCIpamLease`, `MCNseStartup`
and `MCWorkloadRegistry` extend the models with the constants and symmetries of the configurations. Definitions marked "Mutant" in the
models are changes a bug could make; no specification uses them.

## 3. Runs

Passing runs:

| Run | Instance | Shows |
|---|---|---|
| MCPeeringPair | 2 NSEs, 2 workers each, names stored first, everything may fail | types; the mutex covers the attempt; the ends agree; VPP never has a link in each direction, also after late handlers; a request goes only to a peer without a link; an established link and its interface are kept; no self-peering; the contract |
| MCPeeringLive | 2 NSEs, 1 worker, one of them asked before its name is stored, fair | discovery ends; peers do not stay undecided; the agreement up to the empty name |
| MCDataplaneFaults | 2 connections, 1 handler, refusals anywhere in the chain, every failure of the agent but that of the reset, re-requests, a restart | open clients stay in the configuration; a Close cuts its own, and dies of nothing but a missing configuration |
| MCDataplaneSerial | 3 connections, 1 handler, NAT, refusals before the composite, a restart at any point | VPP mirrors the configuration; open clients stay programmed and translated; closed clients are gone; the contract |
| MCRouting | 3 NSEs, two with a server of two /22 blocks that may refuse, a /16 pool, octets from the pod, by default and not a number | types; subnets that are separated are disjoint; no running NSE is sent another's traffic; links have routes both ways but for what a failed Update leaves |
| MCDiscovery | 3 peers in the own and two remote domains, 2 Requests, any query may fail | types; registered peers of the own and the first remote domain are reached unless their query failed; each is looked for where it registered |
| MCLeaseHeld | lease of 3 hours, 4 units an hour, renewals of up to 3 units, fair | start-up ends; the lease is held while up; freed only afterwards; types |
| MCStartup | every configuration of no, one or two endpoints (the second with labels and valid routes), octets from the environment, an IPv4 and an IPv6 address, with and without `-verify`, fair | an accepted configuration crashes only where `Complete` says; a signal ends the process, with nothing left but what NSM refused to delete; types |
| MCWorkloads | 5 connections: two workloads of different pods, one with a port out of range, one with a port that is no number, one without a label | only logged errors make the registry differ from the connections; the gauge adds up, and settles; types |

Runs that end in a counterexample, each with a finding in `PROJECT.json`:

| Run | What the code does |
|---|---|
| MCDataplaneRollback | after a failed Update everything is deleted and the Request succeeds |
| MCDataplaneTwoRequests | two first Requests lose one of two interfaces |
| MCDiscoveryRemotes | the query for a second remote domain names the first one, too, and finds nothing; the README of vl3-nse gives an example with two |

The other limits of the code show when a passing run is changed, by a constant or by one property
more; each row is a counterexample of TLC:

| Change | Property that fails | Why |
|---|---|---|
| MCPeeringPair with `ConnKept` or `ClientKept` also where `connErr[p][n]` | that | a late handler of a peer whose attempt failed overwrites the entry, and the interface, of the link made since |
| MCPeeringPair with `Early = {}` | `NoSelfPeering` | an endpoint called before its name is stored connects to itself |
| MCDataplaneSerial with `MayReRequest = TRUE` | `ClosedIsGone` | a repeated Request leaves an interface behind when the client closes |
| MCDataplaneSerial with `Faults = {"delete"}` | `ClosedIsGone`, `VppMirrorsConfig` | a Close repeated after a failed Delete finds nothing and succeeds |
| MCDataplaneSerial with `Faults = {"mkdir"}` or `{"reset"}` | `VppMirrorsConfig` | an interface that was refused stays in the configuration; a reset whose error is only logged leaves the old one in VPP |
| MCDataplaneSerial with `Faults = {"mkdir"}` | `NatServed` | the first unlabelled client takes number 0 and fails before it adds the pool; the next one adds none |
| MCDataplaneSerial with two connections of one label | `OpenProgrammed` | the second replaces the first in VPP, and the Close of one removes both |
| MCDataplaneFaults with `CloseCutsOwn` for no panic at all, also with `MaxRestarts = 0` | that | the Close of a connection that was refused in the chain, or is from before a restart, dereferences the nil `dpConfig` |
| MCDataplaneSerial with `ClosedIsGone` extended to `vpp.nat.dnat` | that | Close leaves the port mappings |
| MCDataplaneTwoRequests | `OpenConfigured`, `ClosedIsGone`, `CloseCutsOwn` | two Requests: one interface is lost; two Closes: one uses a stale index |
| MCRouting with `SubnetsDisjoint` for all running pairs | that | a computed subnet lies in a block the server has leased |
| MCRouting with `NoStrayRoute` also for peers that are gone | that | routes to an NSE that is gone stay, and its block is leased again |
| MCRouting with `BothWays` without `undone`, or without `updated` | that | a failed Update that is undone is no error: the caller has no route, the callee none until it sends again |
| MCDiscovery with `DialledWhereFound` also for peers in `own` | that | a peer's own request creates its entry without a remote address |
| MCStartup with `AcceptedStarts` | `AcceptedStarts` | an endpoint without labels or `nseControl` is accepted (`config_test.go:37` calls it `success-minimal-config`) and crashes `vl3-nse`, as does an IPv6 pool |
| MCLeaseHeld with `CleanedIsFreed` | `CleanedIsFreed` | before the first renewal there is nothing to clean up |
| MCLeaseHeld with `LeaseTimeout = 1` | `HoldsWhileServing` | `time.Tick(0)` never delivers |
| MCLeaseHeld with `MayFail = TRUE` | `HoldsWhileServing` | a refused renewal is tried again only after the lease has ended |
| MCWorkloads with `Anomalies = {"repeat"}` | `GaugeBalanced` | a repeated Request updates the workload and counts it again |
| MCWorkloads with `b` in `pod1`, too | `GaugeBalanced` | two connections of one pod are one workload, counted twice |
| MCWorkloads with `Anomalies = {"lost"}` or `{"unknown"}` | `GaugeBalanced` | the gauge counts answers, not workloads |

Bounds. Peering is a relation between pairs, and the interference on an entry comes from the
peer's handler and from a second goroutine: two NSEs with two workers have both, and the proofs
cover any number of either. The registry's answers have one endpoint each (`MCSingleResponses`), as a
goroutine visits several one after the other. MCPeeringLive has one worker and leaves out refusals
and redeliveries, which end a wait and do not make one; what it is about is two calls that cross and
an endpoint without a name. `Redeliver` repeats one call per pair at a time. Two
connections suffice for one client to suffer from another, three for a slice to be cut in the
middle; `MaxInterfaces` bounds the length of the slice and the interface numbers, large enough
for duplicates and for a number to be handed out after a Close. The lease runs long enough for
several periods of the ticker, as its state repeats. Two endpoints in a configuration are what it
takes for one to fail after another was started; five connections are one of each kind and one
more workload. Three NSEs are a link and somebody whose traffic it could take, or a pair and the one
that replaces a member, and `MCFinds` lets two of them discover each other and the third one of them;
two blocks are enough for one to be freed and leased again. Two remote
domains are the first list whose second query goes wrong, two Requests share the table, and there
is a peer in each domain. One restart is enough for a half programmed VPP and a forgotten client. Deadlock is not checked where the model may
come to rest: a dataplane whose bound on interfaces is reached, a process that has
ended, workloads whose connections are all closed, NSEs that are all gone, and Requests that are
all handled.

Fairness. `VL3Peering!Fairness` is weak fairness of each worker and of the handlers of each pair:
goroutines run, a delivered call is handled, and a call that stays under way is at last given
up. The last is the assumption `MayTimeout` makes of the NSM client library: the code itself
passes `context.TODO()`. Its mutant, a library without a deadline, deadlocks two NSEs that
discover each other, so the deadline is what the liveness of discovery rests on.
`IpamLease!FairSpec` assumes that calls of the IPAM server return; they have no deadline either.
`NseStartup!FairSpec` assumes that the main goroutine runs and its calls return, and nothing of the
signal; `WorkloadRegistry!FairSpec` only that the goroutines of the gauge run.
Nothing is assumed of clients, of the registry, or of NSM's own retries.

## 4. Proofs

`VL3PeeringProofs`, for any set of NSEs and workers (`ConstantsAssumption` only):

- `CoreInvariant`: `IInv` is inductive. It joins the types, the mutual exclusion of entries
  (`ConnectsUnderPeerLock`), the link between an entry's state and the number of requests sent
  (`AttemptCounted`), and the fact that a call somebody waits for is the one call of that
  worker's visit (`CallsAwaited`). `TypeCorrect` and `PeerLockExclusive` follow.
- `ConnectedIsHeld` needs no more assumptions. `HInv` adds `LabelsOwn` (a request carries the caller's
  name or none, and so does what NSM repeats of it) and `AnswersHeld`: from the answer to the end of
  the attempt the callee holds the caller under the label of that request, which need not be the name
  the caller has by then.
- `NamedInvariant` assumes `Early = NSE`. `NInv` adds that endpoints know their names
  (`NamesKnown`), visit, call and link only others (`OthersOnly`), and that a call or a link
  leaves its trace at the other end (`CallsTraced`): once the callee has handled it, it holds the
  caller as `RX`, and `RX` is never left. With it `ConnAgreed` is inductive (`EndsAgree`), and no step
  can add the reverse of a link: its origin would hold the peer as `RX` and never start an attempt.
- `EstablishedKept` adds `UpAgreed`: an attempt that is over without an error was admitted, even
  if its own entry has become `RX` since. A late handler that meets a `CONN` entry therefore
  comes from a peer whose attempt failed.
- `LinkInvariant` is about VPP. `RxAsked` says that an `RX` entry goes back to a request of that peer,
  and `VppTraced` that a client interface is at the end of an attempt, an endpoint interface (in
  VPP or in `dpConfig`) at that of an `RX` entry: whatever a chain programs after its caller gave up,
  or sends again for somebody else, its endpoint has handled a request first. `OneLinkPerPair`,
  `RequestsOnlyUnconnected` and `ClientInterfaceKept` follow.
- `PeeringImplementsContract`: every step under `NInv` is a step of `PeeringContract` or leaves the
  mapped state unchanged.

`IpamLeaseProofs`, for any lease, unit of time and delay (`LeaseAssumption`):

- `TypeCorrect`, with the strengthening that a running ticker has a unit left.
- `LeaseHeld`, for leases of at least two hours, renewals that are not refused and
  reach the server in less than an hour. The invariant `LeaseCovers`: while the loop waits, the
  lease outlasts the next tick by an hour, and while it calls, by what is left of that hour.
- `FreedLast`: the subnet is freed only when the endpoint is gone (`ShutdownOrder`).

`NseStartupProofs`, for any set of configurations of any length and both programs
(`StartupAssumption`): `StartupInvariant` shows that types, `AcceptedIsValid`, the crash condition
and `DeletedInOrder` are inductive together. `AcceptedRuns` needs `AcceptedIsValid`,
as what the assembly dereferences was checked, if at all, two loops earlier; `CleanExit` needs
`DeletedInOrder`: during the shutdown NSM only has endpoints the loop has not come to, and those it
refused to delete. `TypeCorrect` follows.

`WorkloadRegistryProofs`, for any finite set of connections (`RegistryAssumption`):
`OnlyErrorsDiffer` holds for every choice of `Anomalies`, with the strengthening that a workload
is in the registry from the answer on, not only once the connection is open (`FollowsFromCall`).
`GaugeAddsUp` assumes `Anomalies = {}` and that no two connections share an identifier, and needs
`RegisteredOnce`: who is about to register is not in the registry, so that each counted call changes
its size by one.

`VL3RoutingProofs`, for any NSEs, environments, pool, leasable subnets and configured routes
(`RoutingAssumption`): `Inv` joins that leases are disjoint (`LeasesDisjoint`), that a running NSE
hands out its lease or else its computed prefix (`SubnetFromLease`), that only NSEs that were started
take part in the peering (`PeersStarted`), that a route to a peer is to what that peer handed out
since its start (`RoutesAnnounced`), and that the callee has the route in its configuration before the
caller is answered, and in VPP whenever its last Update worked (`LinksRouted`). `RoutesAnnounced` is
what carries `RoutesLeadHome` over the end of an NSE: the subnet of a name never changes, so an old
route can only be to an NSE that is gone. `SubnetsAreDisjoint`, `LinksGoBothWays` and
`RoutingTypeCorrect` follow.

`VL3DiscoveryProofs`, for any peers, Requests and list of remote domains (`DiscoveryAssumption`):
`AtHome` says that a goroutine only visits peers of its query's domain and that an entry it added
has that domain, `Followed` that a peer that was due is still to be asked for, was missed by a query
that failed, is about to be visited, or was reached. `DialsWhereFound` needs the first, `FindsNear` both.
The lemma `AnswerAtHome` carries the argument about names: a query that is answered has at most one
domain in its name, which is then the one it was meant for.

`UcnfDataplaneProofs`, for any connections, labels, faults and bounds, and one handler
(`Handler = {h}`): `Serial(h)` says, for each step of a call, what the steps before it left: the
connection is in the object that `dpConfig` points to from the append to the answer, the index of a
Close is the one it found, and what is open is held. With two handlers it is false, as the run
MCDataplaneTwoRequests shows. `SerialOpenConfigured` and `SerialCloseCutsOwn` hold with any faults,
refusals and restarts. What the code computes on slices, to append in place and to cut, is in the lemmas
`PutInto` and `CutOut`; the first place with the connection's address is a minimum, which the
library gives through the well-foundedness of `<` on the naturals.

The same module for any finite set of handlers, in any interleaving, with any faults and restarts
(`IsFiniteSet(Handler)`): `Shared` is what is left of `Serial(h)` when others change the object that
`dpConfig` points to, and `dpConfig` itself, between two steps of a call.

- `Working(h)`: the length a handler read is within the array it appends to, which holds because no
  step makes an array shorter: a Close cuts the slice and leaves the array.
- `Untouched`: two Requests may both find no `dpConfig` and both make one. The object that the later
  one stores is empty, and nobody has hold of it before.
- `NumbersLeft`: what keeps `EndpointIfID` in its bound counts the handlers that will take a number.
- `OneWorks` is the argument common to all steps: a step that writes only objects in use and makes no
  array shorter leaves the other handlers with what they rely on.

`TypeCorrect` follows. The index panic that `CloseCutsOwn` rules out is possible with two handlers:
since a Close found its index, the slice may have become shorter, or the object another one.

`UcnfProgrammedProofs`, on top of it, is about what VPP has, again for one handler, any connections,
any number of restarts, with or without NAT. `StepMoves` first says what every step does to the
entries of the object as a set (`Listed`), to the part of a Close's message that is still in VPP
(`Sent`), and to both (`Live`). The invariants are:

- `NamesOwn`: the name of an entry is its client's label or a number handed out to nobody else.
  Without it an Update of one client could replace the interface of another.
- `Carried`: while a Request is under way its client is in the object, and from the send on in the
  message; the message of a Close has nothing but its own client.
- `Served`, with `Pooled`: what an open client was promised is in VPP, under its name, and is in the
  object, so that every later Update sends it again. `SerialOpenProgrammed` and `SerialNatServed`.
- `Within`, with `Once`: all that VPP has is of a client that is listed or whose Delete is under way,
  and no client is listed twice. `SerialClosedIsGone`.

What they assume, each for a reason the runs or the table of section 3 show:

| Theorem | Connections | Faults left out |
|---|---|---|
| `SerialOpenProgrammed` | `DistinctLabels` | `update` |
| `SerialNatServed` | `DistinctLabels` | `update`, `mkdir` |
| `SerialClosedIsGone` | any labels, no repeated Requests | `port`, `delete`, `reset` |

`DistinctLabels`: connections with a label have different ones, and no label reads like a number
that is handed out. The code enforces neither (`buildVppIfName` takes the label as it is), and two
entries of one name are one interface in VPP. MCDataplaneSerial has labels of this kind.

Only model-checked: liveness (`DiscoveryEnds`, `PeerSettles`, `AllocationEnds`, `SignalEnds`,
`GaugeSettles`), which the prover cannot do; `NoSelfPeering`, which with `Early = NSE` is a part of
`NInv`; and of the data plane `VppMirrorsConfig` and `ImplementsContract`, which hold for one call at a
time and as long as nothing below the composite fails: a theorem that assumes all of this for any
number of clients would say little more than the run. Every other property of a passing run is the
statement of a theorem. `AllFound`, and `OpenProgrammed` where Updates fail or Requests overlap, are
violated by the code and have their runs.

## 5. Not modelled

DNS contexts, lists of excluded prefixes, the decoding of YAML, TLS and dialling, logging. Octets
above 255 in `VL3Routing`, and IPv6 pods and pools that are no IPv4 subnet there (`NseStartup` has
what becomes of them). A restart of an NSE under its own name does not happen, as NSM gives every
start a new one: `VL3Routing` has the new NSE beside what the old one left, `UcnfDataplane` what VPP
and NSM keep. The abort of the Go runtime on concurrent map writes (`ClientLabels`, `EndpointIfID`) is
noted as a hazard only. Generated code, scripts, charts and images have no state of the endpoint.
`config_init.go`, most of `config.go` and `nsconfiguration.go` are not reached by any `main`.

## 6. Plan

1. Done: all modules above, and a theorem for the safety properties and refinements the runs check,
   but for those named under "Only model-checked".
2. Done: `UcnfDataplane` with any number of handlers, as far as its properties hold there.
3. `VL3Peering` with an NSE that is replaced: what the entries of its old name do to the others.
