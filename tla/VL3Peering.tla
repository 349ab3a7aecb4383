----------------------------- MODULE VL3Peering -----------------------------
(***************************************************************************)
(* How the vL3 network service endpoints (NSEs) of one network service     *)
(* find each other and connect: the vL3ConnectComposite of                 *)
(* cmd/vl3-nse/vl3_connect.go, one copy per NSE.                           *)
(*                                                                         *)
(* A client's request makes an NSE ask the registry for the endpoints of   *)
(* its service and start a goroutine (a worker) that visits each of them.  *)
(* A visit takes the mutex of the peer's entry and, if the entry is still  *)
(* NOTCONN, sends the peer a connection request with the mutex HELD until  *)
(* the answer comes.  The handler of such a request, at the other NSE,     *)
(* takes the mutex of the entry of the caller; when it has released it the *)
(* rest of the endpoint's chain programs a VPP interface for the caller.   *)
(* Both the caller and the callee name their interface after the other NSE *)
(* so that the later of two programmings replaces the earlier one.         *)
(*                                                                         *)
(* External, modelled from how this code uses it: the NSM registry (what   *)
(* endpoints it reports), the NSM client library and managers that carry a *)
(* connection request (it may be refused, abandoned after a timeout while  *)
(* it is still under way, delivered again to keep a connection alive, and  *)
(* closed), and the VPP agent (it may refuse a configuration).             *)
(***************************************************************************)
EXTENDS Naturals

CONSTANTS
  NSE,            \* the endpoints; an element is also the name NSM gives it
  NoName,         \* the empty endpoint name ""
  Worker,         \* discovery goroutines an NSE may have at a time (a bound)
  None,           \* no worker
  Responses,      \* the sets of endpoints the registry may report
  Early,          \* endpoints whose name is stored before a request comes
  MayTimeout,     \* a caller may give up on a call that is under way
  MayFail,        \* NSM and VPP may refuse
  MayRedeliver    \* NSM may repeat the request of a connection it keeps

Name == NSE \cup {NoName}

ASSUME ConstantsAssumption ==
  /\ NoName \notin NSE
  /\ None \notin Worker
  /\ Responses \subseteq SUBSET NSE
  /\ Early \subseteq NSE /\ MayTimeout \in BOOLEAN
  /\ MayFail \in BOOLEAN /\ MayRedeliver \in BOOLEAN

VARIABLES
  registered,  \* registered[n]: Endpoint.NseName has been filled in at n
  myName,      \* myName[n]: vxc.myEndpointName
  state,       \* state[n][p]: peer.state of the entry p of n's vl3NsePeers
  connErr,     \* connErr[n][p]: peer.connErr # nil
  holder,      \* holder[n][p]: n's worker that holds the peer's mutex
  performed,   \* performed[n][p]: connection requests n has sent to p
  pc,          \* pc[n][w]: where worker w of n is
  todo,        \* todo[n][w]: endpoints of the response still to visit
  cur,         \* cur[n][w]: the peer being visited
  calls,       \* connection requests between NSEs that are under way
  conns,       \* connections NSM keeps between NSEs
  iface,       \* iface[n][p]: what n's VPP has under the name of p
  offered      \* offered[n]: peers with an interface in n's shared dpConfig

nameVars   == <<registered, myName>>
peerVars   == <<state, connErr, holder, performed>>
workerVars == <<pc, todo, cur>>
vppVars    == <<iface, offered>>
vars == <<registered, myName, state, connErr, holder, performed,
          pc, todo, cur, calls, conns, iface, offered>>

PeerState == {"ABSENT", "NOTCONN", "INPROG", "CONN", "CONNERR", "RX"}

(* A call is what ConnectToEndpoint carries: the caller, the name it puts  *)
(* in the label "vl3Nse/nseSource/endpointName", the endpoint it asks for, *)
(* the worker that waits (None when it gave up, or for a redelivery), and  *)
(* how far the callee is: it added the entry, handled it, answered.        *)
Call == [src : NSE, label : Name, dst : NSE, by : Worker \cup {None},
         phase : {"sent", "added", "handled", "accepted", "refused"}]

Conn == [src : NSE, label : Name, dst : NSE]

TypeOK ==
  /\ registered \in [NSE -> BOOLEAN]
  /\ myName \in [NSE -> Name]
  /\ state \in [NSE -> [Name -> PeerState]]
  /\ connErr \in [NSE -> [Name -> BOOLEAN]]
  /\ holder \in [NSE -> [Name -> Worker \cup {None}]]
  /\ performed \in [NSE -> [Name -> Nat]]
  /\ pc \in [NSE -> [Worker -> {"idle", "loop", "lock", "call", "program"}]]
  /\ todo \in [NSE -> [Worker -> SUBSET NSE]]
  /\ cur \in [NSE -> [Worker -> Name]]
  /\ calls \subseteq Call
  /\ conns \subseteq Conn
  /\ iface \in [NSE -> [Name -> {"none", "client", "endpoint"}]]
  /\ offered \in [NSE -> SUBSET Name]

Init ==
  /\ registered = [n \in NSE |-> n \in Early]
  /\ myName = [n \in NSE |-> NoName]
  /\ state = [n \in NSE |-> [p \in Name |-> "ABSENT"]]
  /\ connErr = [n \in NSE |-> [p \in Name |-> FALSE]]
  /\ holder = [n \in NSE |-> [p \in Name |-> None]]
  /\ performed = [n \in NSE |-> [p \in Name |-> 0]]
  /\ pc = [n \in NSE |-> [w \in Worker |-> "idle"]]
  /\ todo = [n \in NSE |-> [w \in Worker |-> {}]]
  /\ cur = [n \in NSE |-> [w \in Worker |-> NoName]]
  /\ calls = {}
  /\ conns = {}
  /\ iface = [n \in NSE |-> [p \in Name |-> "none"]]
  /\ offered = [n \in NSE |-> {}]

-----------------------------------------------------------------------------
(* The endpoint's own name.                                                *)

(* Process() stores the name NSM gave the endpoint, after Start() has made *)
(* the endpoint reachable.                                                 *)
Start(n) ==
  /\ ~registered[n]
  /\ registered' = [registered EXCEPT ![n] = TRUE]
  /\ UNCHANGED <<myName, peerVars, workerVars, calls, conns, vppVars>>

(* SetMyNseName: the first name that is not empty stays.  It comes from    *)
(* the request, which may carry it or not, or else from NseName.           *)
SetMyNseName(n, named) ==
  myName' = [myName EXCEPT ![n] =
               IF @ = NoName /\ (named \/ registered[n]) THEN n ELSE @]

(* addPeer: an entry is created once, and an existing one is left alone.   *)
AddedPeer(n, p) ==
  IF state[n][p] = "ABSENT" THEN [state EXCEPT ![n][p] = "NOTCONN"] ELSE state

-----------------------------------------------------------------------------
(* Request from a client workload.  One step per registry query: the local *)
(* query and each remote one start a goroutine of their own, and the name  *)
(* is set once, before them.                                               *)

(* Mutant: an endpoint the registry reports without a name is visited too. *)
NscRequestUnnamedPeer(n, w) ==
  /\ pc[n][w] = "idle"
  /\ \E named \in BOOLEAN : SetMyNseName(n, named)
  /\ \E found \in Responses : todo' = [todo EXCEPT ![n][w] = found \cup {NoName}]
  /\ pc' = [pc EXCEPT ![n][w] = "loop"]
  /\ UNCHANGED <<registered, peerVars, cur, calls, conns, vppVars>>

NscRequest(n, w) ==
  /\ pc[n][w] = "idle"
  /\ \E named \in BOOLEAN : SetMyNseName(n, named)
  /\ \E found \in Responses : todo' = [todo EXCEPT ![n][w] = found]
  /\ pc' = [pc EXCEPT ![n][w] = "loop"]
  /\ UNCHANGED <<registered, peerVars, cur, calls, conns, vppVars>>

(* FindNetworkService fails: no goroutine is started.                      *)
NscRequestFindFails(n) ==
  /\ \E named \in BOOLEAN : SetMyNseName(n, named)
  /\ UNCHANGED <<registered, peerVars, workerVars, calls, conns, vppVars>>

-----------------------------------------------------------------------------
(* processNsEndpoints: the loop of a discovery goroutine.                  *)

SkipSelf(n, w) ==
  /\ pc[n][w] = "loop"
  /\ myName[n] \in todo[n][w]
  /\ todo' = [todo EXCEPT ![n][w] = @ \ {myName[n]}]
  /\ UNCHANGED <<nameVars, peerVars, pc, cur, calls, conns, vppVars>>

(* Mutant: the own name is not left out.                                   *)
AddPeerSelf(n, w) ==
  /\ pc[n][w] = "loop"
  /\ \E p \in todo[n][w] :
       /\ state' = AddedPeer(n, p)
       /\ todo' = [todo EXCEPT ![n][w] = @ \ {p}]
       /\ cur' = [cur EXCEPT ![n][w] = p]
  /\ pc' = [pc EXCEPT ![n][w] = "lock"]
  /\ UNCHANGED <<nameVars, connErr, holder, performed, calls, conns, vppVars>>

(* Reading the own name and addPeer are two critical sections of vxc; the  *)
(* entry an addPeer creates is the same whenever it is created.            *)
AddPeer(n, w) ==
  /\ pc[n][w] = "loop"
  /\ \E p \in todo[n][w] \ {myName[n]} :
       /\ state' = AddedPeer(n, p)
       /\ todo' = [todo EXCEPT ![n][w] = @ \ {p}]
       /\ cur' = [cur EXCEPT ![n][w] = p]
  /\ pc' = [pc EXCEPT ![n][w] = "lock"]
  /\ UNCHANGED <<nameVars, connErr, holder, performed, calls, conns, vppVars>>

LoopEnds(n, w) ==
  /\ pc[n][w] = "loop"
  /\ todo[n][w] = {}
  /\ pc' = [pc EXCEPT ![n][w] = "idle"]
  /\ UNCHANGED <<nameVars, peerVars, todo, cur, calls, conns, vppVars>>

(* The visited entry is not NOTCONN: ConnectPeerEndpoint only logs, and    *)
(* the mutex is taken and released.                                        *)
VisitKnown(n, w) ==
  LET p == cur[n][w] IN
  /\ pc[n][w] = "lock"
  /\ holder[n][p] = None
  /\ state[n][p] # "NOTCONN"
  /\ pc' = [pc EXCEPT ![n][w] = "loop"]
  /\ cur' = [cur EXCEPT ![n][w] = NoName]
  /\ UNCHANGED <<nameVars, peerVars, todo, calls, conns, vppVars>>

ConnectFrom(n, w, unconnected) ==
  LET p == cur[n][w] IN
  /\ pc[n][w] = "lock"
  /\ holder[n][p] = None
  /\ state[n][p] \in unconnected
  /\ holder' = [holder EXCEPT ![n][p] = w]
  /\ state' = [state EXCEPT ![n][p] = "INPROG"]
  /\ performed' = [performed EXCEPT ![n][p] = @ + 1]
  /\ calls' = calls \cup {[src |-> n, label |-> myName[n], dst |-> p,
                           by |-> w, phase |-> "sent"]}
  /\ pc' = [pc EXCEPT ![n][w] = "call"]
  /\ UNCHANGED <<nameVars, connErr, todo, cur, conns, vppVars>>

(* Mutant: an incoming link does not count.                                *)
BeginConnectBesideRx(n, w) == ConnectFrom(n, w, {"NOTCONN", "RX"})

(* The visited entry is NOTCONN: mark it in progress and send the request, *)
(* keeping the mutex.                                                      *)
BeginConnect(n, w) == ConnectFrom(n, w, {"NOTCONN"})

-----------------------------------------------------------------------------
(* The caller's side of a call.                                            *)

Pending(n, w) == {c \in calls : c.src = n /\ c.by = w}

(* Mutant: the mutex is not released.                                      *)
EndVisitKeepsLock(n, w, s) ==
  LET p == cur[n][w] IN
  /\ state' = [state EXCEPT ![n][p] = s]
  /\ connErr' = [connErr EXCEPT ![n][p] = (s = "CONNERR")]
  /\ pc' = [pc EXCEPT ![n][w] = "loop"]
  /\ cur' = [cur EXCEPT ![n][w] = NoName]
  /\ UNCHANGED <<nameVars, holder, performed, todo>>

(* The attempt is over: its state and connErr are set, the mutex released. *)
EndVisit(n, w, s) ==
  LET p == cur[n][w] IN
  /\ state' = [state EXCEPT ![n][p] = s]
  /\ connErr' = [connErr EXCEPT ![n][p] = (s = "CONNERR")]
  /\ holder' = [holder EXCEPT ![n][p] = None]
  /\ pc' = [pc EXCEPT ![n][w] = "loop"]
  /\ cur' = [cur EXCEPT ![n][w] = NoName]
  /\ UNCHANGED <<nameVars, performed, todo>>

(* ConnectToEndpoint succeeds; ProcessClient extends the configuration.    *)
CallReturns(n, w) ==
  /\ pc[n][w] = "call"
  /\ \E c \in Pending(n, w) :
       /\ c.phase = "accepted"
       /\ calls' = calls \ {c}
       /\ conns' = conns \cup {[src |-> n, label |-> c.label, dst |-> c.dst]}
  /\ pc' = [pc EXCEPT ![n][w] = "program"]
  /\ UNCHANGED <<nameVars, peerVars, todo, cur, vppVars>>

(* ConnectToEndpoint fails: the peer's chain refused, or NSM did before    *)
(* the request reached the peer.                                           *)
CallFails(n, w) ==
  /\ pc[n][w] = "call"
  /\ \E c \in Pending(n, w) :
       /\ c.phase = "refused" \/ (MayFail /\ c.phase = "sent")
       /\ calls' = calls \ {c}
  /\ EndVisit(n, w, "CONNERR")
  /\ UNCHANGED <<conns, vppVars>>

(* Mutant: the call has no deadline.                                       *)
CallNeverTimesOut(n, w) == FALSE

(* ConnectToEndpoint gives up; a call that has not been answered yet goes  *)
(* on without a caller.                                                    *)
CallTimesOut(n, w) ==
  /\ MayTimeout
  /\ pc[n][w] = "call"
  /\ \E c \in Pending(n, w) :
       calls' = (calls \ {c}) \cup
                (IF c.phase \in {"accepted", "refused"} THEN {}
                 ELSE {[c EXCEPT !.by = None]})
  /\ EndVisit(n, w, "CONNERR")
  /\ UNCHANGED <<conns, vppVars>>

(* ProcessDPConfig for the client interface; the state follows its result. *)
(* A failed Update is followed by a Delete, whose result is the one that   *)
(* counts: CONN may stand for no interface, and CONNERR for one that was   *)
(* put and not taken away.  The connection is left as it is.               *)
ProgramDone(n, w) ==
  /\ pc[n][w] = "program"
  /\ \E s \in {"CONN"} \cup (IF MayFail THEN {"CONNERR"} ELSE {}),
        i \in {"client"} \cup (IF MayFail THEN {"none"} ELSE {}) :
       /\ EndVisit(n, w, s)
       /\ iface' = [iface EXCEPT ![n][cur[n][w]] = i]
  /\ UNCHANGED <<calls, conns, offered>>

-----------------------------------------------------------------------------
(* The callee's side: Request with the peer label, processPeerRequest.     *)

RxAddPeer(c) ==
  /\ c.phase = "sent"
  /\ state' = AddedPeer(c.dst, c.label)
  /\ calls' = (calls \ {c}) \cup {[c EXCEPT !.phase = "added"]}
  /\ UNCHANGED <<nameVars, connErr, holder, performed, workerVars, conns, vppVars>>

(* The handler gives the entry the state s.                                *)
Handle(c, s) ==
  /\ c.phase = "added"
  /\ state' = [state EXCEPT ![c.dst][c.label] = s]
  /\ calls' = (calls \ {c}) \cup {[c EXCEPT !.phase = "handled"]}
  /\ UNCHANGED <<nameVars, connErr, holder, performed, workerVars, conns, vppVars>>

(* Mutants: the handler does not take the mutex; it leaves the state as it *)
(* is.                                                                     *)
RxProcessUnlocked(c) == Handle(c, "RX")
RxProcessKeepsState(c) == /\ holder[c.dst][c.label] = None
                          /\ Handle(c, state[c.dst][c.label])

(* Under the entry's mutex the state becomes RX, whatever it was.          *)
RxProcess(c) == /\ holder[c.dst][c.label] = None
                /\ Handle(c, "RX")

(* An Update of the endpoint's configuration, which has the interfaces of  *)
(* all its connections: all are put, or, when the Update fails and the     *)
(* Delete after it does not, all are gone, and that counts as a success;   *)
(* when both fail, each is put, gone or as it was.                         *)
Updated(n, names, ok) ==
  \E put \in SUBSET names : \E gone \in SUBSET (names \ put) :
    /\ IF ok THEN put = names \/ (MayFail /\ gone = names) ELSE MayFail
    /\ iface' = [iface EXCEPT ![n] =
                   [p \in Name |-> IF p \in put THEN "endpoint"
                                   ELSE IF p \in gone THEN "none" ELSE @[p]]]

(* An answer nobody waits for is lost.                                     *)
Answered(c, answer) ==
  calls' = (calls \ {c}) \cup
           (IF c.by = None THEN {} ELSE {[c EXCEPT !.phase = answer]})

(* The rest of the callee's chain, which runs without the entry's mutex    *)
(* and whether or not the caller still waits: an interface for the caller  *)
(* is added to the configuration and the configuration sent to VPP.        *)
RxProgram(c) ==
  /\ c.phase = "handled"
  /\ offered' = [offered EXCEPT ![c.dst] = @ \cup {c.label}]
  /\ \E ok \in BOOLEAN :
       /\ Updated(c.dst, offered[c.dst] \cup {c.label}, ok)
       /\ Answered(c, IF ok THEN "accepted" ELSE "refused")
  /\ UNCHANGED <<nameVars, peerVars, workerVars, conns>>

(* The chain refuses before the interface is added.                        *)
RxRefused(c) ==
  /\ MayFail
  /\ c.phase = "handled"
  /\ Answered(c, "refused")
  /\ UNCHANGED <<nameVars, peerVars, workerVars, conns, vppVars>>

(* The request of a workload, or of another peer, sends the configuration  *)
(* of all connections again.                                               *)
Resend(n) ==
  /\ offered[n] # {}
  /\ \E ok \in BOOLEAN : Updated(n, offered[n], ok)
  /\ UNCHANGED <<nameVars, peerVars, workerVars, calls, conns, offered>>

-----------------------------------------------------------------------------
(* NSM on its own.                                                         *)

(* A request that nobody waits for may be dropped before it is delivered.  *)
DropLate(c) ==
  /\ c.by = None
  /\ c.phase = "sent"
  /\ calls' = calls \ {c}
  /\ UNCHANGED <<nameVars, peerVars, workerVars, conns, vppVars>>

(* NSM repeats the request of a connection it keeps, one at a time.        *)
Redeliver(k) ==
  /\ MayRedeliver
  /\ ~\E c \in calls : c.src = k.src /\ c.dst = k.dst
  /\ calls' = calls \cup {[src |-> k.src, label |-> k.label, dst |-> k.dst,
                           by |-> None, phase |-> "sent"]}
  /\ UNCHANGED <<nameVars, peerVars, workerVars, conns, vppVars>>

(* The endpoint's Close takes the interface of the caller out of the       *)
(* configuration, or one of the copies that repeated requests put there,   *)
(* and out of VPP, where it goes by its name.  The peer table is not       *)
(* touched.                                                                *)
Closed(n, p) ==
  /\ \E left \in {{}} \cup (IF MayRedeliver THEN {{p}} ELSE {}) :
       offered' = [offered EXCEPT ![n] = (@ \ {p}) \cup (@ \cap left)]
  /\ \E i \in {"none"} \cup (IF MayFail THEN {iface[n][p]} ELSE {}) :
       iface' = [iface EXCEPT ![n][p] = i]
  /\ UNCHANGED <<nameVars, peerVars, workerVars, calls>>

Close(k) == conns' = conns \ {k} /\ Closed(k.dst, k.label)

(* NSM closes what the callee accepted and no caller kept.                 *)
CloseUnkept(n, p) ==
  /\ p \in offered[n]
  /\ ~\E k \in conns : k.dst = n /\ k.label = p
  /\ Closed(n, p)
  /\ UNCHANGED conns

-----------------------------------------------------------------------------
Discover(n, w) == SkipSelf(n, w) \/ AddPeer(n, w) \/ LoopEnds(n, w)

Visit(n, w) == VisitKnown(n, w) \/ BeginConnect(n, w)

Answer(n, w) == \/ CallReturns(n, w) \/ CallFails(n, w)
                \/ CallTimesOut(n, w) \/ ProgramDone(n, w)

WorkerStep(n, w) == Discover(n, w) \/ Visit(n, w) \/ Answer(n, w)

HandlerStep(n, p) == \E c \in calls : /\ c.src = p /\ c.dst = n
                                      /\ \/ RxAddPeer(c) \/ RxProcess(c)
                                         \/ RxProgram(c) \/ RxRefused(c)

NsmStep == \/ \E c \in calls : DropLate(c)
           \/ \E k \in conns : Redeliver(k) \/ Close(k)
           \/ \E n \in NSE, p \in Name : CloseUnkept(n, p)

Next ==
  \/ \E n \in NSE : Start(n) \/ NscRequestFindFails(n) \/ Resend(n)
  \/ \E n \in NSE, w \in Worker : NscRequest(n, w) \/ WorkerStep(n, w)
  \/ \E n, p \in NSE : HandlerStep(n, p)
  \/ NsmStep

Spec == Init /\ [][Next]_vars

(* Goroutines and handlers that can run do run; a call that is under way   *)
(* is answered or, if the library bounds it, given up.  Nothing is assumed *)
(* of clients, of the registry or of NSM's own steps.                      *)
Fairness == /\ \A n \in NSE, w \in Worker : WF_vars(WorkerStep(n, w))
            /\ \A n, p \in NSE : WF_vars(HandlerStep(n, p))

FairSpec == Spec /\ Fairness

-----------------------------------------------------------------------------
(* Properties.                                                             *)

(* An entry is in progress exactly while a worker of the same NSE holds    *)
(* its mutex inside a connection attempt to it: the comment "expected to   *)
(* be called with peer.Lock()" above the three functions of the attempt.   *)
ConnectsUnderPeerLock ==
  \A n \in NSE, p \in Name :
    /\ state[n][p] = "INPROG" <=> holder[n][p] # None
    /\ \A w \in Worker : holder[n][p] = w <=> (/\ pc[n][w] \in {"call", "program"}
                                               /\ cur[n][w] = p)

(* An endpoint that counts a peer as connected is held as a peer by it,    *)
(* whatever calls timed out, were refused or answered late on either side. *)
ConnAgreed ==
  \A n, p \in NSE : state[n][p] = "CONN" => state[p][n] = "RX"

(* Even when requests come before the name is stored, and calls carry an   *)
(* empty name, a connected peer holds the caller under one of its names.   *)
ConnHeldSomehow ==
  \A n, p \in NSE : state[n][p] = "CONN" => \E q \in {n, NoName} : state[p][q] = "RX"

(* Two endpoints that discover each other at the same time never end up    *)
(* with a link in each direction, a client interface at both ends.         *)
SingleLink ==
  \A n, p \in NSE : ~(iface[n][p] = "client" /\ iface[p][n] = "client")

(* An endpoint never takes itself for a peer: README of vl3-nse, lines     *)
(* 14-15, "finds all other NSEs", "for each other NSE to peer with".       *)
NoSelfPeering == \A n \in NSE : state[n][n] = "ABSENT"

(* An entry that is CONN is never downgraded, by a late handler or by      *)
(* another goroutine, unless the peer's own attempt has failed: the        *)
(* outgoing link it stands for is never given up for an incoming one that  *)
(* still counts at the other end.                                          *)
ConnKept ==
  [][\A n, p \in NSE :
       state[n][p] = "CONN" => state'[n][p] = "CONN" \/ connErr[p][n]]_vars

(* A connection request is sent only to a peer with which nothing exists   *)
(* yet, at either end: README of vl3-nse, line 16, "if not already         *)
(* connected to it, create a NS connection request".  Neither VPP has an   *)
(* interface of a link between the two, whatever was refused, abandoned or *)
(* undone before.                                                          *)
AsksOnlyUnconnected ==
  [][\A n, p \in NSE :
       performed'[n][p] # performed[n][p] =>
         /\ iface[n][p] = "none" /\ iface[p][n] # "client"
         /\ state[p][n] # "CONN"]_vars

(* The client interface of a link is not replaced by the interface that    *)
(* the chain programs under the same name for a request of that peer,      *)
(* also one its caller gave up long ago, unless the peer's attempt failed. *)
ClientKept ==
  [][\A n, p \in NSE :
       iface[n][p] = "client" /\ iface'[n][p] = "endpoint" => connErr[p][n]]_vars

(* Every discovery goroutine comes to its end: no crossing of connection   *)
(* requests leaves the workers of two NSEs waiting for each other's mutex. *)
DiscoveryEnds ==
  \A n \in NSE, w \in Worker : pc[n][w] # "idle" ~> pc[n][w] = "idle"

(* A peer that was entered in the table, by a goroutine or by a handler,   *)
(* does not stay undecided, also while some requests carry no name.        *)
PeerSettles ==
  \A n, p \in NSE :
    state[n][p] \in {"NOTCONN", "INPROG"} ~> state[n][p] \in {"CONN", "CONNERR", "RX"}

-----------------------------------------------------------------------------
(* The implementation of the contract.                                     *)

attemptOf ==
  [n \in NSE |-> [p \in NSE |->
     IF performed[n][p] = 0 THEN "none"
     ELSE IF state[n][p] = "INPROG" THEN "trying"
     ELSE IF connErr[n][p] THEN "failed" ELSE "up"]]

admittedOf == [p \in NSE |-> {n \in NSE : state[p][n] = "RX"}]

Contract == INSTANCE PeeringContract WITH attempt <- attemptOf, admitted <- admittedOf

(* When the endpoint's name is stored before any request comes, peering    *)
(* implements its contract.                                                *)
ImplementsContract == Contract!Spec
=============================================================================
