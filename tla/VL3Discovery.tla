---------------------------- MODULE VL3Discovery ----------------------------
(***************************************************************************)
(* How a vL3 NSE learns of its peers, and where it looks for each of them. *)
(* A Request of a client asks the registry of the NSE's own domain, and    *)
(* through it those of the remote domains in NSM_REMOTE_NS_IP_LIST; every  *)
(* answer is worked through by a goroutine of its own.  The first to add a *)
(* peer to the table fixes the domain its connection request is sent to.   *)
(*                                                                         *)
(* What becomes of the connection request, and the mutex around it, is in  *)
(* VL3Peering; here a peer is visited in one step, once it is added.       *)
(*                                                                         *)
(* External: the registry, the peers, which register at some time and may  *)
(* send a connection request themselves.                                   *)
(***************************************************************************)
EXTENDS Integers, Sequences

CONSTANTS
  Peer,       \* the other NSEs of the service
  Handler,    \* Requests of clients, each handled once
  Local,      \* the own domain, "" in the code
  RemoteList, \* remoteNsIpList: the remote domains, as configured
  HomeOf,     \* HomeOf[p]: the domain p registers in
  None,       \* no peer, no domain
  MayFail     \* FindNetworkService may fail

Remotes == Len(RemoteList)
Domain == {Local} \cup {RemoteList[k] : k \in 1..Remotes}

ASSUME DiscoveryAssumption ==
  /\ RemoteList \in Seq(Domain) /\ Local \notin {RemoteList[k] : k \in 1..Remotes}
  /\ HomeOf \in [Peer -> Domain]
  /\ None \notin Peer \cup Domain
  /\ MayFail \in BOOLEAN

VARIABLES
  pc,         \* pc[h]: -1, the query h sends next, or Remotes + 1
  left,       \* left[h][k]: what the goroutine for query k has to visit
  at,         \* at[h][k]: the peer it has added and will visit, or None
  entry,      \* entry[p]: remoteIp of p's entry, or None
  state,      \* state[p] of the entry
  dialled,    \* dialled[p]: where the connection request to p was sent
  registered, \* the peers that are registered
  due,        \* due[h]: those that were when h began
  failed,     \* failed[h]: the queries of h that failed
  own         \* peers that were added because of their own request

vars == <<pc, left, at, entry, state, dialled, registered, due, failed, own>>
tableVars == <<entry, state, dialled, own>>

TypeOK ==
  /\ pc \in [Handler -> -1..(Remotes + 1)]
  /\ left \in [Handler -> [0..Remotes -> SUBSET Peer]]
  /\ at \in [Handler -> [0..Remotes -> Peer \cup {None}]]
  /\ entry \in [Peer -> Domain \cup {None}]
  /\ state \in [Peer -> {"NOTCONN", "TRIED", "RX"}]
  /\ dialled \in [Peer -> Domain \cup {None}]
  /\ registered \subseteq Peer /\ own \subseteq Peer
  /\ due \in [Handler -> SUBSET Peer]
  /\ failed \in [Handler -> SUBSET (0..Remotes)]

Init ==
  /\ pc = [h \in Handler |-> -1]
  /\ left = [h \in Handler |-> [k \in 0..Remotes |-> {}]]
  /\ at = [h \in Handler |-> [k \in 0..Remotes |-> None]]
  /\ entry = [p \in Peer |-> None]
  /\ state = [p \in Peer |-> "NOTCONN"]
  /\ dialled = [p \in Peer |-> None]
  /\ registered = {} /\ own = {}
  /\ due = [h \in Handler |-> {}]
  /\ failed = [h \in Handler |-> {}]

Register(p) ==
  /\ p \notin registered
  /\ registered' = registered \cup {p}
  /\ UNCHANGED <<pc, left, at, due, failed, tableVars>>

-----------------------------------------------------------------------------
(* The handler of a client's Request.                                      *)

Request(h) ==
  /\ pc[h] = -1
  /\ pc' = [pc EXCEPT ![h] = 0]
  /\ due' = [due EXCEPT ![h] = registered]
  /\ UNCHANGED <<left, at, registered, failed, tableVars>>

(* The domains in the name of query k: each adds one to the name of the    *)
(* query before it, ns, ns@ip1, ns@ip1@ip2.                                *)
Suffix(k) == SubSeq(RemoteList, 1, k)

(* The registry knows names with one domain at most.                       *)
Answer(suffix) ==
  IF suffix = <<>> THEN {p \in registered : HomeOf[p] = Local}
                   ELSE {p \in registered : HomeOf[p] = suffix[1]}

(* A goroutine is started for the answer.                                  *)
Find(h) ==
  LET k == pc[h] IN
  /\ k \in 0..Remotes /\ Len(Suffix(k)) <= 1
  /\ left' = [left EXCEPT ![h][k] = Answer(Suffix(k))]
  /\ pc' = [pc EXCEPT ![h] = k + 1]
  /\ UNCHANGED <<at, registered, due, failed, tableVars>>

(* Mutant: an error ends the handler's search.                             *)
FindFailsLast(h) ==
  LET k == pc[h] IN
  /\ k \in 0..Remotes /\ (MayFail \/ Len(Suffix(k)) > 1)
  /\ failed' = [failed EXCEPT ![h] = @ \cup {k}]
  /\ pc' = [pc EXCEPT ![h] = Remotes + 1]
  /\ UNCHANGED <<left, at, registered, due, tableVars>>

(* An error is logged, and the next domain is asked.                       *)
FindFails(h) ==
  LET k == pc[h] IN
  /\ k \in 0..Remotes /\ (MayFail \/ Len(Suffix(k)) > 1)
  /\ failed' = [failed EXCEPT ![h] = @ \cup {k}]
  /\ pc' = [pc EXCEPT ![h] = k + 1]
  /\ UNCHANGED <<left, at, registered, due, tableVars>>

-----------------------------------------------------------------------------
(* The goroutine for query k of h.                                         *)

(* Mutant: it reads the loop variable remoteIp when it gets there.         *)
RemoteIpShared(h, k) ==
  IF k = 0 THEN Local ELSE RemoteList[IF pc[h] <= Remotes THEN pc[h] ELSE Remotes]

(* The remoteIp it was started with.                                       *)
RemoteIp(h, k) == IF k = 0 THEN Local ELSE RemoteList[k]

(* Mutant: two of the strings addPeer is given are swapped.                *)
AddedSwapped(p, ip) == entry' = IF entry[p] = None THEN [entry EXCEPT ![p] = p] ELSE entry

Added(p, ip) == entry' = IF entry[p] = None THEN [entry EXCEPT ![p] = ip] ELSE entry

(* addPeer leaves an entry that is there as it is.                         *)
AddPeer(h, k) ==
  /\ at[h][k] = None
  /\ \E p \in left[h][k] :
       /\ Added(p, RemoteIp(h, k))
       /\ at' = [at EXCEPT ![h][k] = p]
       /\ left' = [left EXCEPT ![h][k] = @ \ {p}]
  /\ UNCHANGED <<pc, registered, due, failed, state, dialled, own>>

(* A peer that was not tried is, at the domain in its entry.               *)
ConnectPeer(h, k) ==
  LET p == at[h][k] IN
  /\ p # None
  /\ IF state[p] = "NOTCONN"
     THEN /\ dialled' = [dialled EXCEPT ![p] = entry[p]]
          /\ state' = [state EXCEPT ![p] = "TRIED"]
     ELSE UNCHANGED <<dialled, state>>
  /\ at' = [at EXCEPT ![h][k] = None]
  /\ UNCHANGED <<pc, left, registered, due, failed, entry, own>>

-----------------------------------------------------------------------------
(* A peer's own request: its entry is added with no remote IP, and marked  *)
(* once the mutex of the entry is taken.                                   *)

RxAddPeer(p) ==
  /\ p \in registered
  /\ entry[p] = None
  /\ Added(p, Local)
  /\ own' = own \cup {p}
  /\ UNCHANGED <<pc, left, at, registered, due, failed, state, dialled>>

RxProcess(p) ==
  /\ p \in registered /\ entry[p] # None
  /\ state' = [state EXCEPT ![p] = "RX"]
  /\ UNCHANGED <<pc, left, at, registered, due, failed, entry, dialled, own>>

-----------------------------------------------------------------------------
Next ==
  \/ \E p \in Peer : Register(p) \/ RxAddPeer(p) \/ RxProcess(p)
  \/ \E h \in Handler : Request(h) \/ Find(h) \/ FindFails(h)
  \/ \E h \in Handler, k \in 0..Remotes : AddPeer(h, k) \/ ConnectPeer(h, k)

Spec == Init /\ [][Next]_vars

-----------------------------------------------------------------------------
(* Properties.                                                             *)

(* The domain query k is meant for.                                        *)
DomainOf(k) == IF k = 0 THEN Local ELSE RemoteList[k]

Finished(h) ==
  /\ pc[h] = Remotes + 1
  /\ \A k \in 0..Remotes : left[h][k] = {} /\ at[h][k] = None

Reached(p) == dialled[p] # None \/ state[p] = "RX"

(* README of vl3-nse: a Request starts a thread that "finds all other NSEs *)
(* for the same network service type", in all the clusters it is given.    *)
(* When the search is done and no query failed that the registry could     *)
(* answer, every peer that was registered by then has been sent a          *)
(* connection request or has sent one.  The code misses those of a second  *)
(* remote domain: it adds the domain to the name of the query before.      *)
AllFound ==
  \A h \in Handler : Finished(h) =>
    \A p \in due[h] : Reached(p)

(* What the search does promise, for the own domain and the first remote   *)
(* one: it misses no peer there, unless that very query failed.  An error  *)
(* of the other query loses nothing, nor does a goroutine or a peer that   *)
(* made the entry first.                                                   *)
NearFound ==
  \A h \in Handler : Finished(h) =>
    \A p \in due[h], k \in 0..Remotes :
      k <= 1 /\ DomainOf(k) = HomeOf[p] => Reached(p) \/ k \in failed[h]

(* The entry "keeps" the remote IP of its peer, and the request goes       *)
(* there: to the domain the peer is registered in, although goroutines for *)
(* several domains share the table.  Only a peer whose own request was     *)
(* first may be looked for in the wrong domain.                            *)
DialledWhereFound ==
  \A p \in Peer : dialled[p] # None /\ p \notin own => dialled[p] = HomeOf[p]
=============================================================================
