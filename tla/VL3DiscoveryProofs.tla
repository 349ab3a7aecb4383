------------------------- MODULE VL3DiscoveryProofs -------------------------
(***************************************************************************)
(* Proofs about VL3Discovery, for any peers, clients and list of remote    *)
(* domains: every peer is dialled where it was found, and none of the own  *)
(* and the first remote domain is missed but for a query that failed.      *)
(***************************************************************************)
EXTENDS VL3Discovery, TLAPS

(* A goroutine only visits peers of the domain its query was meant for.    *)
LeftAtHome ==
  \A h \in Handler, k \in 0..Remotes : \A p \in left[h][k] : HomeOf[p] = DomainOf(k)

(* An entry that a goroutine added has the domain of its peer, and so had  *)
(* the connection request.                                                 *)
EntryAtHome ==
  \A p \in Peer \ own : /\ entry[p] # None => entry[p] = HomeOf[p]
                        /\ dialled[p] # None => dialled[p] = HomeOf[p]

AtHome == TypeOK /\ LeftAtHome /\ EntryAtHome

(* A peer that is visited has an entry; one that was tried was dialled.    *)
EntriesUsed ==
  /\ \A h \in Handler, k \in 0..Remotes :
       at[h][k] # None => entry[at[h][k]] # None
  /\ \A p \in Peer : state[p] = "TRIED" => dialled[p] # None

(* A peer that was registered when h began is still to be asked for, was   *)
(* missed by a query that failed, is about to be visited, or was reached.  *)
DueFollowed ==
  \A h \in Handler : \A p \in due[h], k \in 0..Remotes :
    DomainOf(k) = HomeOf[p] =>
      \/ pc[h] <= k
      \/ k \in failed[h]
      \/ p \in left[h][k] \/ p = at[h][k]
      \/ Reached(p)

DueRegistered == \A h \in Handler : due[h] \subseteq registered

Followed == EntriesUsed /\ DueRegistered /\ DueFollowed

-----------------------------------------------------------------------------
(* The queries that can be answered are the first two, with the domain     *)
(* they are meant for.                                                     *)
LEMMA AnswerAtHome ==
  ASSUME NEW k \in 0..Remotes, Len(Suffix(k)) <= 1
  PROVE  \A p \in registered : p \in Answer(Suffix(k)) <=> HomeOf[p] = DomainOf(k)
<1>1. Remotes \in Nat /\ RemoteList \in Seq(Domain)
  BY DiscoveryAssumption DEF DiscoveryAssumption, Remotes
<1>2. Len(Suffix(k)) = k
  BY <1>1 DEF Suffix, Remotes
<1>3. CASE k = 0
  <2>1. Suffix(k) = <<>>
    BY <1>1, <1>3 DEF Suffix
  <2> QED
    BY <1>3, <2>1 DEF Answer, DomainOf
<1>4. CASE k = 1
  <2>1. Suffix(k) # <<>> /\ Suffix(k)[1] = RemoteList[1]
    BY <1>1, <1>4 DEF Suffix, Remotes
  <2> QED
    BY <1>4, <2>1 DEF Answer, DomainOf
<1> QED
  BY <1>1, <1>2, <1>3, <1>4

(* The domain a query is meant for is a domain, and None is not one.       *)
LEMMA DomainsNamed ==
  /\ Remotes \in Nat
  /\ \A k \in 0..Remotes : DomainOf(k) \in Domain
  /\ Local \in Domain /\ None \notin Domain /\ None \notin Peer
BY DiscoveryAssumption DEF DiscoveryAssumption, Remotes, Domain, DomainOf

(* The first state satisfies the invariants.                               *)
LEMMA DiscoveryInit == Init => AtHome /\ Followed
<1> SUFFICES ASSUME Init PROVE AtHome /\ Followed
  OBVIOUS
<1>1. TypeOK
  BY DomainsNamed DEF Init, TypeOK
<1>2. LeftAtHome /\ EntryAtHome
  BY DEF Init, LeftAtHome, EntryAtHome
<1>3. Followed
  BY DEF Init, Followed, EntriesUsed, DueRegistered, DueFollowed
<1> QED
  BY <1>1, <1>2, <1>3 DEF AtHome

(* Every step keeps the types and what is looked for where it is.          *)
LEMMA AtHomeKept == AtHome /\ [Next]_vars => AtHome'
<1> SUFFICES ASSUME AtHome, [Next]_vars PROVE AtHome'
  OBVIOUS
<1> USE DomainsNamed DEF AtHome, TypeOK, LeftAtHome, EntryAtHome, tableVars
<1>1. ASSUME NEW p \in Peer, Register(p) PROVE AtHome'
  BY <1>1 DEF Register
<1>2. ASSUME NEW p \in Peer, RxAddPeer(p) PROVE AtHome'
  BY <1>2 DEF RxAddPeer, Added
<1>3. ASSUME NEW p \in Peer, RxProcess(p) PROVE AtHome'
  BY <1>3 DEF RxProcess
<1>4. ASSUME NEW h \in Handler, Request(h) PROVE AtHome'
  BY <1>4 DEF Request
<1>5. ASSUME NEW h \in Handler, Find(h) PROVE AtHome'
  <2>1. /\ pc[h] \in 0..Remotes /\ Len(Suffix(pc[h])) <= 1
        /\ left' = [left EXCEPT ![h][pc[h]] = Answer(Suffix(pc[h]))]
        /\ pc' = [pc EXCEPT ![h] = pc[h] + 1]
        /\ UNCHANGED <<at, registered, due, failed, tableVars>>
    BY <1>5 DEF Find
  <2>2. \A p \in Answer(Suffix(pc[h])) : p \in Peer /\ HomeOf[p] = DomainOf(pc[h])
    BY <2>1, AnswerAtHome DEF Answer
  <2> QED
    BY <2>1, <2>2
<1>6. ASSUME NEW h \in Handler, FindFails(h) PROVE AtHome'
  BY <1>6 DEF FindFails
<1>7. ASSUME NEW h \in Handler, NEW k \in 0..Remotes, AddPeer(h, k) PROVE AtHome'
  <2>1. PICK p \in left[h][k] : /\ Added(p, RemoteIp(h, k))
                                /\ at' = [at EXCEPT ![h][k] = p]
                                /\ left' = [left EXCEPT ![h][k] = @ \ {p}]
    BY <1>7 DEF AddPeer
  <2>2. UNCHANGED <<pc, registered, due, failed, state, dialled, own>>
    BY <1>7 DEF AddPeer
  <2>3. RemoteIp(h, k) = HomeOf[p] /\ HomeOf[p] \in Domain
    BY <2>1 DEF RemoteIp, DomainOf
  <2> QED
    BY <2>1, <2>2, <2>3 DEF Added
<1>8. ASSUME NEW h \in Handler, NEW k \in 0..Remotes, ConnectPeer(h, k) PROVE AtHome'
  <2> DEFINE p == at[h][k]
  <2>1. /\ p \in Peer
        /\ at' = [at EXCEPT ![h][k] = None]
        /\ UNCHANGED <<pc, left, registered, due, failed, entry, own>>
    BY <1>8 DEF ConnectPeer
  <2>2. \/ UNCHANGED <<dialled, state>>
        \/ /\ dialled' = [dialled EXCEPT ![p] = entry[p]]
           /\ state' = [state EXCEPT ![p] = "TRIED"]
    BY <1>8 DEF ConnectPeer
  <2>3. at' \in [Handler -> [0..Remotes -> Peer \cup {None}]]
    BY <2>1
  <2> HIDE DEF p
  <2>4. /\ dialled' \in [Peer -> Domain \cup {None}]
        /\ state' \in [Peer -> {"NOTCONN", "TRIED", "RX"}]
    <3>1. entry[p] \in Domain \cup {None}
      BY <2>1
    <3>2. /\ dialled \in [Peer -> Domain \cup {None}]
          /\ state \in [Peer -> {"NOTCONN", "TRIED", "RX"}]
      OBVIOUS
    <3> HIDE DEF TypeOK
    <3> QED
      BY <2>1, <2>2, <3>1, <3>2
  <2>5. EntryAtHome'
    BY <2>1, <2>2
  <2>6. LeftAtHome' /\ TypeOK'
    BY <2>1, <2>3, <2>4
  <2> HIDE DEF TypeOK, LeftAtHome, EntryAtHome
  <2> QED
    BY <2>5, <2>6
<1>9. CASE UNCHANGED vars
  BY <1>9 DEF vars
<1> HIDE DEF AtHome
<1> QED
  BY <1>1, <1>2, <1>3, <1>4, <1>5, <1>6, <1>7, <1>8, <1>9 DEF Next

(* What is due stays followed: only its own query, its own goroutine and   *)
(* its own entry decide about a peer.                                      *)
LEMMA FollowedKept == AtHome /\ Followed /\ [Next]_vars => Followed'
<1> SUFFICES ASSUME AtHome, Followed, [Next]_vars PROVE Followed'
  OBVIOUS
<1> USE DomainsNamed DEF AtHome, TypeOK, Followed, EntriesUsed, DueRegistered, tableVars
<1>1. ASSUME NEW p \in Peer, Register(p) PROVE Followed'
  BY <1>1 DEF Register, DueFollowed, Reached
<1>2. ASSUME NEW p \in Peer, RxAddPeer(p) PROVE Followed'
  BY <1>2 DEF RxAddPeer, Added, DueFollowed, Reached
<1>3. ASSUME NEW p \in Peer, RxProcess(p) PROVE Followed'
  BY <1>3 DEF RxProcess, DueFollowed, Reached
<1>4. ASSUME NEW h \in Handler, Request(h) PROVE Followed'
  <2>1. /\ pc[h] = -1
        /\ pc' = [pc EXCEPT ![h] = 0] /\ due' = [due EXCEPT ![h] = registered]
        /\ UNCHANGED <<left, at, registered, failed, tableVars>>
    BY <1>4 DEF Request
  <2>2. DueFollowed'
    BY <2>1 DEF DueFollowed, Reached
  <2> QED
    BY <2>1, <2>2
<1>5. ASSUME NEW h \in Handler, Find(h) PROVE Followed'
  <2>1. /\ pc[h] \in 0..Remotes /\ Len(Suffix(pc[h])) <= 1
        /\ left' = [left EXCEPT ![h][pc[h]] = Answer(Suffix(pc[h]))]
        /\ pc' = [pc EXCEPT ![h] = pc[h] + 1]
        /\ UNCHANGED <<at, registered, due, failed, tableVars>>
    BY <1>5 DEF Find
  <2>2. \A p \in due[h] : HomeOf[p] = DomainOf(pc[h]) => p \in left'[h][pc[h]]
    BY <2>1, AnswerAtHome
  <2>3. DueFollowed'
    BY <2>1, <2>2 DEF DueFollowed, Reached
  <2> QED
    BY <2>1, <2>3
<1>6. ASSUME NEW h \in Handler, FindFails(h) PROVE Followed'
  <2>1. DueFollowed'
    BY <1>6 DEF FindFails, DueFollowed, Reached
  <2> QED
    BY <1>6, <2>1 DEF FindFails
<1>7. ASSUME NEW h \in Handler, NEW k \in 0..Remotes, AddPeer(h, k) PROVE Followed'
  <2>1. PICK p \in left[h][k] : /\ Added(p, RemoteIp(h, k))
                                /\ at' = [at EXCEPT ![h][k] = p]
                                /\ left' = [left EXCEPT ![h][k] = @ \ {p}]
    BY <1>7 DEF AddPeer
  <2>2. /\ UNCHANGED <<pc, registered, due, failed, state, dialled, own>>
        /\ at[h][k] = None
    BY <1>7 DEF AddPeer
  <2>3. RemoteIp(h, k) \in Domain /\ p \in Peer
    BY DEF RemoteIp, DomainOf
  <2>4. EntriesUsed'
    BY <2>1, <2>2, <2>3 DEF Added
  <2>5. DueFollowed'
    BY <2>1, <2>2 DEF DueFollowed, Reached
  <2> QED
    BY <2>2, <2>4, <2>5
<1>8. ASSUME NEW h \in Handler, NEW k \in 0..Remotes, ConnectPeer(h, k) PROVE Followed'
  <2>1. /\ at[h][k] # None /\ at' = [at EXCEPT ![h][k] = None]
        /\ UNCHANGED <<pc, left, registered, due, failed, entry, own>>
    BY <1>8 DEF ConnectPeer
  <2> DEFINE p == at[h][k]
  <2>2. p \in Peer /\ entry[p] # None
    BY <2>1
  <2>3. \/ /\ UNCHANGED <<dialled, state>> /\ state[p] # "NOTCONN"
        \/ /\ dialled' = [dialled EXCEPT ![p] = entry[p]]
           /\ state' = [state EXCEPT ![p] = "TRIED"] /\ state[p] = "NOTCONN"
    BY <1>8 DEF ConnectPeer
  <2>4. \A g \in Handler, j \in 0..Remotes : at'[g][j] # at[g][j] => at[g][j] = p
    BY <2>1
  <2>5. \A g \in Handler, j \in 0..Remotes : at'[g][j] # None => at'[g][j] = at[g][j]
    BY <2>1
  <2> HIDE DEF p
  <2>6. /\ \A q \in Peer : Reached(q) => Reached(q)'
        /\ \A q \in Peer : q = p => Reached(q)'
        /\ \A q \in Peer : state'[q] = "TRIED" => dialled'[q] # None
    BY <2>2, <2>3 DEF Reached
  <2>7. EntriesUsed'
    <3>1. \A g \in Handler, j \in 0..Remotes :
            at[g][j] # None => entry[at[g][j]] # None
      OBVIOUS
    <3>2. entry' = entry
      BY <2>1
    <3> QED
      BY <2>5, <2>6, <3>1, <3>2
  <2>8. DueFollowed'
    <3> SUFFICES ASSUME NEW g \in Handler, NEW q \in due[g], NEW j \in 0..Remotes,
                        DomainOf(j) = HomeOf[q]
                 PROVE  \/ pc[g] <= j \/ j \in failed[g] \/ q \in left[g][j]
                        \/ q = at'[g][j] \/ Reached(q)'
      BY <2>1 DEF DueFollowed
    <3> q \in Peer
      OBVIOUS
    <3> QED
      <4>1. \/ pc[g] <= j \/ j \in failed[g] \/ q \in left[g][j]
            \/ q = at[g][j] \/ Reached(q)
        BY DEF DueFollowed
      <4>2. CASE q = at[g][j] /\ at'[g][j] # at[g][j]
        BY <2>4, <2>6, <4>2
      <4> QED
        BY <2>6, <4>1, <4>2
  <2> QED
    BY <2>1, <2>7, <2>8
<1>9. CASE UNCHANGED vars
  BY <1>9 DEF vars, DueFollowed, Reached
<1> HIDE DEF Followed
<1> QED
  BY <1>1, <1>2, <1>3, <1>4, <1>5, <1>6, <1>7, <1>8, <1>9 DEF Next

-----------------------------------------------------------------------------
(* The invariants behind the theorems below.                               *)
THEOREM DiscoveryInvariant == Spec => [](AtHome /\ Followed)
<1>1. Init => AtHome /\ Followed
  BY DiscoveryInit
<1>2. AtHome /\ Followed /\ [Next]_vars => (AtHome /\ Followed)'
  BY AtHomeKept, FollowedKept
<1> QED
  BY <1>1, <1>2, PTL DEF Spec

(* Every variable keeps its type.                                          *)
THEOREM DiscoveryTypeCorrect == Spec => []TypeOK
<1>1. AtHome => TypeOK
  BY DEF AtHome
<1> QED
  BY <1>1, DiscoveryInvariant, PTL

(* A connection request goes to the domain its peer is registered in,      *)
(* unless the peer's own request made the entry: processNsEndpoints and    *)
(* addPeer, for any number of goroutines.                                  *)
THEOREM DialsWhereFound == Spec => []DialledWhereFound
<1>1. AtHome => DialledWhereFound
  BY DEF AtHome, EntryAtHome, DialledWhereFound
<1> QED
  BY <1>1, DiscoveryInvariant, PTL

(* A finished Request of a client missed no peer of the own domain and of  *)
(* the first remote one, unless the query for that very domain failed: the *)
(* loop of Request goes on after an error, and addPeer and connectPeer     *)
(* lose no peer to another goroutine.  Of further remote domains it says   *)
(* nothing: their queries cannot be answered.                              *)
THEOREM FindsNear == Spec => []NearFound
<1>1. AtHome /\ Followed => NearFound
  <2> SUFFICES ASSUME AtHome, Followed, NEW h \in Handler, Finished(h),
                      NEW p \in due[h], NEW k \in 0..Remotes,
                      DomainOf(k) = HomeOf[p]
               PROVE  Reached(p) \/ k \in failed[h]
    BY DEF NearFound
  <2>1. p \in Peer
    BY DEF AtHome, TypeOK
  <2>2. ~(pc[h] <= k) /\ p \notin left[h][k] /\ p # at[h][k]
    BY <2>1, DomainsNamed DEF Finished
  <2> QED
    BY <2>2 DEF Followed, DueFollowed
<1> QED
  BY <1>1, DiscoveryInvariant, PTL
=============================================================================
