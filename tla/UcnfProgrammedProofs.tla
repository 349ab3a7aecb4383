------------------------ MODULE UcnfProgrammedProofs ------------------------
(***************************************************************************)
(* Proofs about UcnfDataplane for one call at a time: what VPP has         *)
(* compared with what the clients were told and what dpConfig holds.  That *)
(* VPP also has nothing beyond dpConfig between calls, and the contract,   *)
(* are left to model checking: they hold only where nothing fails.         *)
(*                                                                         *)
(* dpConfig is a list with repetitions, and a client may stand in it more  *)
(* than once, under names that others might have.  The invariants speak of *)
(* its entries as a set, Listed; of the entries that are only in VPP until *)
(* a Delete takes them out, Sent; and of both, Live.                       *)
(***************************************************************************)
EXTENDS UcnfDataplaneProofs

Listed(h) == {mem[h].arr[i] : i \in 1..mem[h].len}
Sent(h) == {job[h].msg.ifs[i] : i \in DOMAIN job[h].msg.ifs}
Entry(h) == [conn |-> job[h].conn, name |-> job[h].name]

Cutting(h) == pc[h] \in {"sendcut", "delete"}
Live(h) == Listed(h) \cup (IF Cutting(h) THEN Sent(h) ELSE {})
LiveRoutes(h) == mem[h].routes \cup (IF Cutting(h) THEN job[h].msg.routes ELSE {})

-----------------------------------------------------------------------------
(* The steps of the one handler in terms of these sets.                    *)
Stays == UNCHANGED <<dp, mem, ifID>>

Begins(h, c, told_) ==
  /\ pc[h] = "idle" /\ c \in Conn
  /\ job'[h].conn = c /\ job'[h].msg = EmptyMsg
  /\ client' = [client EXCEPT ![c] = told_]
  /\ Stays /\ UNCHANGED vpp

Asks(h, c) == /\ Begins(h, c, "asked") /\ client[c] \in Requestable
              /\ pc'[h] = IF dp = None THEN "new" ELSE "build"

HangsUp(h, c) == /\ Begins(h, c, "closing") /\ pc'[h] = "find"
                 /\ client[c] \in {"open", "refused", "close failed", "lost"}

(* The chain refuses a request before the handler has it.                  *)
TurnsAway == /\ \E c \in Conn : /\ client[c] \in Requestable
                                /\ client' = [client EXCEPT ![c] = "refused"]
             /\ UNCHANGED <<dp, mem, ifID, pc, job, vpp>>

Creates(h) ==
  /\ pc[h] = "new" /\ pc'[h] = "build"
  /\ dp = None /\ dp' = h /\ mem'[h] = EmptyConfig
  /\ UNCHANGED <<ifID, job, vpp, client>>

IsNamed(h) ==
  LET c == job[h].conn IN
  /\ pc[h] = "build" /\ pc'[h] = "append" /\ dp = h
  /\ ifID' = IF LabelOf[c] = None THEN ifID + 1 ELSE ifID
  /\ job'[h].conn = c
  /\ job'[h].name = IF LabelOf[c] = None THEN ifID + 1 ELSE LabelOf[c]
  /\ UNCHANGED <<dp, mem, vpp, client>>

(* Interfaces, routes and NAT entries of the object become these.          *)
Lists(h) ==
  /\ pc[h] = "append" /\ pc'[h] = "route" /\ dp = h
  /\ mem'[h].len = mem[h].len + 1 /\ mem'[h].arr[mem[h].len + 1] = Entry(h)
  /\ \A i \in 1..mem[h].len : mem'[h].arr[i] = mem[h].arr[i]
  /\ mem'[h].routes = mem[h].routes /\ mem'[h].nat = mem[h].nat
  /\ UNCHANGED <<dp, ifID, job, vpp, client>>

Holds(h, routes, nat) ==
  /\ dp = h /\ mem'[h].arr = mem[h].arr /\ mem'[h].len = mem[h].len
  /\ mem'[h].routes = routes /\ mem'[h].nat = nat
  /\ UNCHANGED <<dp, ifID, job, vpp, client>>

IsRouted(h) ==
  /\ pc[h] = "route" /\ pc'[h] = IF NatIP THEN "nat" ELSE "send"
  /\ Holds(h, mem[h].routes \cup {job[h].conn}, mem[h].nat)

IsNatted(h) ==
  /\ pc[h] = "nat" /\ pc'[h] = "send"
  /\ Holds(h, mem[h].routes,
           [pool |-> mem[h].nat.pool \/ ifID \in {-1, 0},
            ifs |-> mem[h].nat.ifs \cup {job[h].name},
            dnat |-> mem[h].nat.dnat \cup ({job[h].conn} \cap Forwarded)])

IsSent(h) ==
  /\ pc[h] = "send" /\ pc'[h] = "update" /\ dp = h
  /\ job'[h].conn = job[h].conn /\ job'[h].name = job[h].name
  /\ Sent(h)' = Listed(h)
  /\ job'[h].msg.routes = mem[h].routes /\ job'[h].msg.nat = mem[h].nat
  /\ Stays /\ UNCHANGED <<vpp, client>>

(* The agent adds, or takes out, what goes under the names S.              *)
Adds(h, S, R, nat) ==
  /\ vpp'.routes = vpp.routes \cup R
  /\ \A m \in Name : IF m \in S THEN [conn |-> vpp'.ifs[m], name |-> m] \in Sent(h)
                                ELSE vpp'.ifs[m] = vpp.ifs[m]
  /\ vpp'.nat = [pool |-> vpp.nat.pool \/ nat.pool, ifs |-> vpp.nat.ifs \cup nat.ifs,
                 dnat |-> vpp.nat.dnat \cup nat.dnat]

TakesOut(S, R, nat) ==
  /\ vpp'.routes = vpp.routes \ R
  /\ \A m \in Name : vpp'.ifs[m] = IF m \in S THEN None ELSE vpp.ifs[m]
  /\ vpp'.nat = [pool |-> vpp.nat.pool /\ ~nat.pool, ifs |-> vpp.nat.ifs \ nat.ifs,
                 dnat |-> vpp.nat.dnat \ nat.dnat]

SentNames(h) == {e.name : e \in Sent(h)}

Ends(h, outcome) ==
  /\ job[h].conn \in Conn /\ pc'[h] = "idle"
  /\ client' = [client EXCEPT ![job[h].conn] = outcome]
  /\ Stays

Refuses(h) == /\ \/ pc[h] = "route" /\ "mkdir" \in Faults /\ Ends(h, "refused")
                 \/ pc[h] = "send" /\ "port" \in Faults /\ Ends(h, "refused")
                 \/ pc[h] = "sendcut" /\ "port" \in Faults /\ Ends(h, "close failed")
              /\ UNCHANGED vpp

Updates(h) == /\ pc[h] = "update" /\ Ends(h, "open")
              /\ Adds(h, SentNames(h), job[h].msg.routes, job[h].msg.nat)

UpdatesPart(h) ==
  /\ pc[h] = "update" /\ pc'[h] = "undo" /\ "update" \in Faults
  /\ \E S \in SUBSET SentNames(h), R \in SUBSET job[h].msg.routes,
        nat \in {NoNat, job[h].msg.nat} : Adds(h, S, R, nat)
  /\ Stays /\ UNCHANGED <<job, client>>

Deletes(h) == /\ \/ pc[h] = "undo" /\ Ends(h, "open")
                 \/ pc[h] = "delete" /\ Ends(h, "closed")
              /\ TakesOut(SentNames(h), job[h].msg.routes, job[h].msg.nat)

DeletesPart(h) ==
  /\ "delete" \in Faults
  /\ \/ pc[h] = "undo" /\ Ends(h, "refused")
     \/ pc[h] = "delete" /\ Ends(h, "close failed")
  /\ \E S \in SUBSET SentNames(h), R \in SUBSET job[h].msg.routes,
        nat \in {NoNat, job[h].msg.nat} : TakesOut(S, R, nat)

(* A Close looks for its interface, which it may not find, or panics; what *)
(* it cuts leaves the list at its place, which is the only one to change.  *)
Looks(h) ==
  /\ pc[h] = "find" /\ pc'[h] \in {"sendcut", "cut", "panic"}
  /\ pc'[h] = "sendcut" => job[h].conn \notin Held(h)
  /\ job'[h].conn = job[h].conn /\ job'[h].msg = job[h].msg
  /\ Stays /\ UNCHANGED <<vpp, client>>

Cuts(h) ==
  LET i == job[h].n IN
  /\ pc[h] = "cut" /\ pc'[h] = "sendcut" /\ dp = h
  /\ i \in 1..mem[h].len /\ mem[h].arr[i].conn = job[h].conn
  /\ mem'[h].len = mem[h].len - 1
  /\ \A k \in 1..(mem[h].len - 1) :
       mem'[h].arr[k] = mem[h].arr[IF k >= i THEN k + 1 ELSE k]
  /\ mem'[h].routes = mem[h].routes \ {job[h].conn} /\ mem'[h].nat = mem[h].nat
  /\ job'[h].conn = job[h].conn /\ Sent(h)' = {mem[h].arr[i]}
  /\ job'[h].msg.routes = mem[h].routes \cap {job[h].conn}
  /\ job'[h].msg.nat = NoNat
  /\ UNCHANGED <<dp, ifID, vpp, client>>

GetsReady(h) == /\ pc[h] = "sendcut" /\ pc'[h] = "delete"
                /\ Stays /\ UNCHANGED <<job, vpp, client>>

Restarts(h) ==
  /\ dp' = None /\ mem'[h] = EmptyConfig /\ ifID' = -1 /\ pc'[h] = "idle"
  /\ vpp' = EmptyVpp \/ ("reset" \in Faults /\ vpp' = vpp)
  /\ client' = [c \in Conn |->
       IF client[c] \in {"new", "refused", "closed"} THEN client[c] ELSE "lost"]

Moves(h) == \/ \E c \in Conn : Asks(h, c) \/ HangsUp(h, c)
            \/ TurnsAway
            \/ Creates(h) \/ IsNamed(h) \/ Lists(h) \/ IsRouted(h) \/ IsNatted(h)
            \/ IsSent(h) \/ Refuses(h)
            \/ Updates(h) \/ UpdatesPart(h) \/ Deletes(h) \/ DeletesPart(h)
            \/ Looks(h) \/ Cuts(h) \/ GetsReady(h)
            \/ Restarts(h) \/ UNCHANGED vars

(* What the records of a state that Serial allows hold.                    *)
LEMMA Records ==
  ASSUME NEW h, Handler = {h}, Serial(h)
  PROVE  /\ h \in Handler /\ h # None
         /\ mem[h] \in Config /\ mem[h].arr \in Seq(Item) /\ mem[h].len \in Nat
         /\ mem[h].len <= Len(mem[h].arr) /\ Len(mem[h].arr) \in Nat
         /\ mem[h].routes \in SUBSET Conn /\ mem[h].nat \in Nat44
         /\ job[h] \in Job /\ job[h].name \in Name /\ job[h].msg \in Msg
         /\ job[h].msg.ifs \in Seq(Item) /\ job[h].msg.routes \in SUBSET Conn
         /\ job[h].msg.nat \in Nat44
         /\ DOMAIN job[h].msg.ifs = 1..Len(job[h].msg.ifs)
         /\ Len(job[h].msg.ifs) \in Nat
         /\ vpp \in Vpp /\ vpp.ifs \in [Name -> Conn \cup {None}]
         /\ vpp.routes \in SUBSET Conn /\ vpp.nat \in Nat44
         /\ ifID \in -1..MaxInterfaces /\ MaxInterfaces \in Nat
         /\ pc \in [Handler -> Step] /\ client \in [Conn -> Outcome]
         /\ Listed(h) \subseteq Item /\ Sent(h) \subseteq Item
<1>1. /\ h \in Handler /\ h # None /\ MaxInterfaces \in Nat
  BY DataplaneAssumption DEF DataplaneAssumption
<1>2. /\ mem[h] \in Config /\ job[h] \in Job /\ vpp \in Vpp
      /\ mem[h].len <= Len(mem[h].arr) /\ ifID \in -1..MaxInterfaces
      /\ pc \in [Handler -> Step] /\ client \in [Conn -> Outcome]
  BY <1>1 DEF Serial, Shape
<1>3. /\ mem[h].arr \in Seq(Item) /\ mem[h].len \in Nat
      /\ mem[h].routes \in SUBSET Conn /\ mem[h].nat \in Nat44
  BY <1>2 DEF Config
<1>4. job[h].name \in Name /\ job[h].msg \in Msg
  BY <1>2 DEF Job
<1>5. /\ job[h].msg.ifs \in Seq(Item) /\ job[h].msg.routes \in SUBSET Conn
      /\ job[h].msg.nat \in Nat44
  BY <1>4 DEF Msg
<1>6. /\ Len(mem[h].arr) \in Nat /\ \A i \in 1..Len(mem[h].arr) : mem[h].arr[i] \in Item
      /\ DOMAIN job[h].msg.ifs = 1..Len(job[h].msg.ifs) /\ Len(job[h].msg.ifs) \in Nat
      /\ \A i \in 1..Len(job[h].msg.ifs) : job[h].msg.ifs[i] \in Item
  BY <1>3, <1>5, LenProperties, ElementOfSeq
<1>7. /\ vpp.ifs \in [Name -> Conn \cup {None}] /\ vpp.routes \in SUBSET Conn
      /\ vpp.nat \in Nat44
  BY <1>2 DEF Vpp
<1>8. Listed(h) \subseteq Item
  BY <1>2, <1>3, <1>6 DEF Listed
<1>9. Sent(h) \subseteq Item
  BY <1>6 DEF Sent
<1> QED
  BY <1>1, <1>2, <1>3, <1>4, <1>5, <1>6, <1>7, <1>8, <1>9

(* A message in the agent: the last entry of a name is one of them.        *)
LEMMA MessageNames ==
  ASSUME NEW h, Handler = {h}, Serial(h)
  PROVE  Names(job[h].msg) = SentNames(h)
BY DEF Names, SentNames, Sent

(* What the agent has after an Update comes from the message, and nothing  *)
(* else of a name goes.                                                    *)
LEMMA MessageAdds ==
  ASSUME NEW h, Handler = {h}, Serial(h), NEW S \in SUBSET Names(job[h].msg),
         NEW R, NEW nat, vpp' = Programmed(job[h].msg, S, R, nat)
  PROVE  Adds(h, S, R, nat)
<1> DEFINE ifs == job[h].msg.ifs
           I(m) == {i \in DOMAIN ifs : ifs[i].name = m}
           won(m) == ifs[Max(I(m))].conn
<1>1. ASSUME NEW m \in S PROVE [conn |-> won(m), name |-> m] \in Sent(h)
  <2>1. I(m) \in SUBSET (1..Len(ifs)) /\ I(m) # {} /\ Len(ifs) \in Nat
    BY Records DEF Names
  <2>2. Max(I(m)) \in I(m)
    <3> HIDE DEF I
    <3> QED
      BY <2>1, MaxOf
  <2> DEFINE i == Max(I(m))
  <2> HIDE DEF i
  <2>3. ifs[i] \in Sent(h) /\ ifs[i] \in Item /\ ifs[i].name = m
    BY <2>2, Records DEF Sent, i
  <2>4. ifs[i] = [conn |-> ifs[i].conn, name |-> m]
    BY <2>3 DEF Item
  <2> QED
    BY <2>3, <2>4 DEF i
<1>2. /\ vpp'.ifs = [m \in Name |-> IF m \in S THEN won(m) ELSE vpp.ifs[m]]
      /\ vpp'.routes = vpp.routes \cup R
      /\ vpp'.nat = [pool |-> vpp.nat.pool \/ nat.pool, ifs |-> vpp.nat.ifs \cup nat.ifs,
                     dnat |-> vpp.nat.dnat \cup nat.dnat]
  BY DEF Programmed
<1> HIDE DEF won
<1> QED
  BY <1>1, <1>2 DEF Adds

(* What the agent has after a Delete.                                      *)
LEMMA MessageTakesOut ==
  ASSUME NEW S, NEW R, NEW nat, vpp' = Removed(S, R, nat)
  PROVE  TakesOut(S, R, nat)
BY DEF Removed, TakesOut

(* Every step of the one handler is one of the moves.                      *)
LEMMA RequestMoves ==
  ASSUME NEW h, Handler = {h}, Serial(h)
  PROVE  /\ \A c \in Conn : Request(h, c) => Asks(h, c)
         /\ \A c \in Conn : Close(h, c) => HangsUp(h, c)
         /\ NewDPConfig(h) => Creates(h)
         /\ BuildVppIfName(h) => IsNamed(h)
         /\ AppendInterface(h) => Lists(h)
         /\ AppendRoutes(h) => IsRouted(h)
         /\ ConfigureNat(h) => IsNatted(h)
<1> USE Records DEF Goto
<1>0. /\ mem \in [Handler -> Config] /\ job \in [Handler -> Job]
      /\ NoJob.msg = EmptyMsg
  BY DEF Serial, Shape, NoJob
<1>1. ASSUME NEW c \in Conn, Request(h, c) PROVE Asks(h, c)
  <2>1. /\ pc' = [pc EXCEPT ![h] = IF dp = None THEN "new" ELSE "build"]
        /\ job' = [job EXCEPT ![h] = [NoJob EXCEPT !.conn = c]]
    BY <1>1 DEF Request
  <2>2. job'[h].conn = c /\ job'[h].msg = EmptyMsg
    BY <1>0, <2>1 DEF NoJob
  <2> QED
    BY <1>1, <2>1, <2>2 DEF Request, Asks, Begins, Stays
<1>2. ASSUME NEW c \in Conn, Close(h, c) PROVE HangsUp(h, c)
  <2>1. /\ pc' = [pc EXCEPT ![h] = "find"]
        /\ job' = [job EXCEPT ![h] = [NoJob EXCEPT !.conn = c, !.obj = dp]]
    BY <1>2 DEF Close
  <2>2. job'[h].conn = c /\ job'[h].msg = EmptyMsg
    BY <1>0, <2>1 DEF NoJob
  <2> QED
    BY <1>2, <2>1, <2>2 DEF Close, HangsUp, Begins, Stays
<1>3. NewDPConfig(h) => Creates(h)
  <2>1. pc[h] = "new" => dp = None
    BY DEF Serial, Stage
  <2> QED
    BY <1>0, <2>1 DEF NewDPConfig, Creates
<1>4. ASSUME BuildVppIfName(h) PROVE IsNamed(h)
  <2>1. pc[h] = "build" /\ dp = h
    BY <1>4 DEF BuildVppIfName, Serial, Stage, Requesting
  <2>2. /\ job'[h].conn = job[h].conn
        /\ job'[h].name = IF LabelOf[job[h].conn] = None THEN ifID + 1 ELSE LabelOf[job[h].conn]
    BY <1>0, <1>4 DEF BuildVppIfName, GetEndpointIfID, Job
  <2> QED
    BY <1>4, <2>1, <2>2 DEF BuildVppIfName, GetEndpointIfID, IsNamed
<1>5. ASSUME AppendInterface(h) PROVE Lists(h)
  <2> DEFINE n == mem[h].len + 1
  <2>1. pc[h] = "append" /\ dp = h /\ job[h].obj = h /\ job[h].n = mem[h].len
        /\ job[h].conn \in Conn
    BY <1>5 DEF AppendInterface, Serial, Stage, Requesting
  <2>2. mem' = [mem EXCEPT ![h].arr = Put(mem[h].arr, n, Entry(h)), ![h].len = n]
    BY <1>5, <2>1 DEF AppendInterface, Entry
  <2>3. Entry(h) \in Item /\ n \in 1..(Len(mem[h].arr) + 1)
    BY <2>1 DEF Entry, Item
  <2>4. /\ Put(mem[h].arr, n, Entry(h))[n] = Entry(h)
        /\ \A i \in 1..Len(mem[h].arr) : i # n => Put(mem[h].arr, n, Entry(h))[i] = mem[h].arr[i]
    BY <2>3, PutInto
  <2>5. /\ mem'[h].arr = Put(mem[h].arr, n, Entry(h)) /\ mem'[h].len = n
        /\ mem'[h].routes = mem[h].routes /\ mem'[h].nat = mem[h].nat
    BY <1>0, <2>2 DEF Config
  <2>6. \A i \in 1..mem[h].len : mem'[h].arr[i] = mem[h].arr[i]
    BY <2>4, <2>5
  <2> QED
    BY <1>5, <2>1, <2>4, <2>5, <2>6 DEF AppendInterface, Lists
<1>6. ASSUME AppendRoutes(h) PROVE IsRouted(h)
  <2>1. pc[h] = "route" /\ dp = h /\ job[h].obj = h
    BY <1>6 DEF AppendRoutes, Serial, Stage, Requesting
  <2>2. mem' = [mem EXCEPT ![h].routes = @ \cup {job[h].conn}]
    BY <1>6, <2>1 DEF AppendRoutes
  <2>3. /\ mem'[h].arr = mem[h].arr /\ mem'[h].len = mem[h].len
        /\ mem'[h].routes = mem[h].routes \cup {job[h].conn} /\ mem'[h].nat = mem[h].nat
    BY <1>0, <2>2 DEF Config
  <2> QED
    BY <1>6, <2>1, <2>3 DEF AppendRoutes, IsRouted, Holds
<1>7. ASSUME ConfigureNat(h) PROVE IsNatted(h)
  <2> DEFINE nat == [pool |-> mem[h].nat.pool \/ ifID \in {-1, 0},
                     ifs |-> mem[h].nat.ifs \cup {job[h].name},
                     dnat |-> mem[h].nat.dnat \cup ({job[h].conn} \cap Forwarded)]
  <2>1. pc[h] = "nat" /\ dp = h /\ job[h].obj = h
    BY <1>7 DEF ConfigureNat, Natted, Serial, Stage, Requesting
  <2>2. mem' = [mem EXCEPT ![h].nat = nat]
    BY <1>0, <1>7, <2>1 DEF ConfigureNat, Natted
  <2> HIDE DEF nat
  <2>3. /\ mem'[h].arr = mem[h].arr /\ mem'[h].len = mem[h].len
        /\ mem'[h].routes = mem[h].routes /\ mem'[h].nat = nat
    BY <1>0, <2>2 DEF Config
  <2> QED
    BY <1>7, <2>1, <2>3 DEF ConfigureNat, Natted, IsNatted, Holds, nat
<1> QED
  BY <1>1, <1>2, <1>3, <1>4, <1>5, <1>6, <1>7

(* A return of the handler.                                                *)
LEMMA ReturnEnds ==
  ASSUME NEW h, Handler = {h}, Serial(h), pc[h] \notin {"idle"},
         UNCHANGED <<dp, mem, ifID>>
  PROVE  \A o \in Outcome : Return(h, o) => Ends(h, o)
<1>1. job[h].conn \in Conn
  BY DEF Serial, Stage
<1> QED
  BY <1>1, Records DEF Return, Goto, Ends, Stays

(* The steps of ProcessDPConfig, and the failures before it.               *)
LEMMA AgentMoves ==
  ASSUME NEW h, Handler = {h}, Serial(h)
  PROVE  /\ MkdirFails(h) \/ PortUnavailable(h) => Refuses(h)
         /\ Send(h) => IsSent(h)
         /\ Update(h) => Updates(h)
         /\ UpdateFails(h) => UpdatesPart(h)
         /\ Undo(h) \/ Delete(h) => Deletes(h)
         /\ DeleteFails(h) => DeletesPart(h)
         /\ SendCut(h) => GetsReady(h)
<1> USE Records DEF Goto
<1>0. job[h].msg.routes \in SUBSET job[h].msg.routes /\ NoNat \in {NoNat, job[h].msg.nat}
      /\ Names(job[h].msg) \in SUBSET Names(job[h].msg)
      /\ {"open", "refused", "close failed", "closed"} \subseteq Outcome
  BY DEF Outcome
<1>1. MkdirFails(h) \/ PortUnavailable(h) => Refuses(h)
  BY <1>0, ReturnEnds DEF MkdirFails, PortUnavailable, Refuses
<1>2. ASSUME Send(h) PROVE IsSent(h)
  <2> DEFINE msg == [ifs |-> Interfaces(dp), routes |-> mem[dp].routes, nat |-> mem[dp].nat]
  <2>1. pc[h] = "send" /\ dp = h
    BY <1>2 DEF Send, Serial, Stage, Requesting
  <2>2. job' = [job EXCEPT ![h].msg = msg] /\ job \in [Handler -> Job]
    BY <1>2 DEF Send, Serial, Shape
  <2>3. job'[h].conn = job[h].conn /\ job'[h].name = job[h].name /\ job'[h].msg = msg
    BY <2>2 DEF Job
  <2>4. \A i \in 1..mem[h].len : mem[h].arr[i] \in Item
    BY ElementOfSeq
  <2>5. /\ Interfaces(h) \in Seq(Item) /\ Len(Interfaces(h)) = mem[h].len
        /\ \A i \in 1..mem[h].len : Interfaces(h)[i] = mem[h].arr[i]
    BY <2>4, SubSeqProperties DEF Interfaces
  <2>6. DOMAIN Interfaces(h) = 1..mem[h].len
    BY <2>5, LenProperties
  <2>7. Sent(h)' = Listed(h)
    <3>1. Sent(h)' = {Interfaces(h)[i] : i \in DOMAIN Interfaces(h)}
      BY <2>1, <2>3 DEF Sent
    <3> QED
      BY <2>5, <2>6, <3>1 DEF Listed
  <2> QED
    BY <1>2, <2>1, <2>3, <2>7 DEF Send, IsSent, Stays
<1>3. Update(h) => Updates(h)
  BY <1>0, ReturnEnds, MessageNames, MessageAdds DEF Update, Updates
<1>4. ASSUME UpdateFails(h) PROVE UpdatesPart(h)
  <2>1. PICK S \in SUBSET Names(job[h].msg), R \in SUBSET job[h].msg.routes,
             nat \in {NoNat, job[h].msg.nat} :
          vpp' = Programmed(job[h].msg, S, R, nat)
    BY <1>4 DEF UpdateFails
  <2>2. S \in SUBSET SentNames(h) /\ Adds(h, S, R, nat)
    BY <2>1, MessageNames, MessageAdds
  <2> QED
    BY <1>4, <2>2 DEF UpdateFails, UpdatesPart, Stays
<1>5. Undo(h) \/ Delete(h) => Deletes(h)
  BY <1>0, ReturnEnds, MessageNames, MessageTakesOut DEF Undo, Delete, Deletes
<1>6. ASSUME DeleteFails(h) PROVE DeletesPart(h)
  <2>1. PICK S \in SUBSET Names(job[h].msg), R \in SUBSET job[h].msg.routes,
             nat \in {NoNat, job[h].msg.nat} : vpp' = Removed(S, R, nat)
    BY <1>6 DEF DeleteFails
  <2>2. S \in SUBSET SentNames(h) /\ TakesOut(S, R, nat)
    BY <2>1, MessageNames, MessageTakesOut
  <2>3. \/ pc[h] = "undo" /\ Ends(h, "refused")
        \/ pc[h] = "delete" /\ Ends(h, "close failed")
    BY <1>0, <1>6, ReturnEnds DEF DeleteFails
  <2> QED
    BY <1>6, <2>2, <2>3 DEF DeleteFails, DeletesPart
<1>7. SendCut(h) => GetsReady(h)
  BY DEF SendCut, GetsReady, Stays
<1> QED
  BY <1>1, <1>2, <1>3, <1>4, <1>5, <1>6, <1>7

(* The steps of Close before the agent is called, and the restart.         *)
LEMMA CloseMoves ==
  ASSUME NEW h, Handler = {h}, Serial(h)
  PROVE  /\ FindInterface(h) \/ FindPanics(h) => Looks(h)
         /\ RemoveInterface(h) => Cuts(h)
         /\ Restart => Restarts(h)
<1> USE Records DEF Goto
<1>0. job \in [Handler -> Job] /\ mem \in [Handler -> Config]
  BY DEF Serial, Shape
<1>1. ASSUME FindInterface(h) PROVE Looks(h)
  <2> DEFINE found == {i \in 1..mem[h].len : mem[h].arr[i].conn = job[h].conn}
  <2>1. dp = h /\ pc[h] = "find"
    BY <1>1 DEF FindInterface, Serial, Shape
  <2>2. pc'[h] = IF found = {} THEN "sendcut" ELSE "cut"
    <3>1. pc' = [pc EXCEPT ![h] = IF found = {} THEN "sendcut" ELSE "cut"]
      BY <1>1, <2>1 DEF FindInterface
    <3> HIDE DEF found
    <3> QED
      BY <3>1
  <2>3. found = {} => job[h].conn \notin Held(h)
    BY DEF Held
  <2>4. job' = [job EXCEPT ![h].n = IF found = {} THEN 0 ELSE Min(found)]
    BY <1>1, <2>1 DEF FindInterface
  <2>5. job'[h].conn = job[h].conn /\ job'[h].msg = job[h].msg
    BY <1>0, <2>4 DEF Job
  <2> HIDE DEF found
  <2> QED
    BY <1>1, <2>1, <2>2, <2>3, <2>5 DEF FindInterface, Looks, Stays
<1>2. FindPanics(h) => Looks(h)
  BY DEF FindPanics, Looks, Stays
<1>3. ASSUME RemoveInterface(h) PROVE Cuts(h)
  <2> DEFINE i == job[h].n
             c == job[h].conn
             s == mem[h].arr
             m == [arr |-> CutArray(h, i), len |-> mem[h].len - 1,
                   routes |-> mem[h].routes \ {c}, nat |-> mem[h].nat]
             msg == [ifs |-> <<s[i]>>, routes |-> mem[h].routes \cap {c}, nat |-> NoNat]
  <2>1. /\ pc[h] = "cut" /\ dp = h /\ i \in 1..mem[h].len /\ s[i].conn = c
    BY <1>3 DEF RemoveInterface, Cut, Serial, Stage
  <2>2. ~(i > mem[h].len)
    BY <2>1
  <2>3. /\ mem' = [mem EXCEPT ![h] = m]
        /\ job' = [job EXCEPT ![h].msg = msg]
        /\ pc' = [pc EXCEPT ![h] = "sendcut"]
        /\ UNCHANGED <<dp, ifID, vpp, client>>
    BY <1>3, <2>1, <2>2 DEF RemoveInterface, Cut
  <2>4. \A k \in 1..(mem[h].len - 1) :
          CutArray(h, i)[k] = s[IF k >= i THEN k + 1 ELSE k]
    BY <2>1, CutOut
  <2>5. mem'[h] = m /\ job'[h].conn = c /\ job'[h].msg = msg /\ pc'[h] = "sendcut"
    BY <1>0, <2>3 DEF Job
  <2>6. /\ Sent(h)' = {msg.ifs[k] : k \in DOMAIN msg.ifs}
    BY <2>5 DEF Sent
  <2>7. DOMAIN <<s[i]>> = {1} /\ <<s[i]>>[1] = s[i]
    OBVIOUS
  <2>8. Sent(h)' = {s[i]}
    BY <2>6, <2>7
  <2> QED
    BY <2>1, <2>3, <2>4, <2>5, <2>8 DEF Cuts
<1>4. Restart => Restarts(h)
  BY DEF Restart, Restarts, ResetVppAgent
<1> QED
  BY <1>1, <1>2, <1>3, <1>4

(* Every step of the specification is one of the moves, or changes         *)
(* nothing.                                                                *)
LEMMA StepMoves ==
  ASSUME NEW h, Handler = {h}, Serial(h), [Next]_vars
  PROVE  Moves(h)
<1>1. CASE Call
  <2>0. (\E c \in Conn : ChainRefuses(c)) => TurnsAway
    BY DEF ChainRefuses, TurnsAway
  <2>1. PICK k \in Handler : \/ TurnsAway
                             \/ \E c \in Conn : Request(k, c) \/ Close(k, c)
                             \/ NewDPConfig(k) \/ ProcessEndpoint(k)
                             \/ FindInterface(k) \/ FindPanics(k) \/ RemoveInterface(k)
                             \/ ProcessDPConfig(k)
    BY <1>1, <2>0 DEF Call
  <2>2. k = h
    BY <2>1
  <2> QED
    BY <2>1, <2>2, RequestMoves, AgentMoves, CloseMoves
       DEF Moves, ProcessEndpoint, ProcessDPConfig
<1>2. CASE Restart
  BY <1>2, CloseMoves DEF Moves
<1>3. CASE UNCHANGED vars
  BY <1>3 DEF Moves
<1> QED
  BY <1>1, <1>2, <1>3 DEF Next

-----------------------------------------------------------------------------
(* An entry has the name of its label, or a number that was handed out; no *)
(* two clients have one number, and the number at hand is new.             *)
Numbered(c) == LabelOf[c] = None

Own(e) == IF Numbered(e.conn) THEN e.name \in 0..ifID ELSE e.name = LabelOf[e.conn]

NamesOwn(h) ==
  /\ dp = None => mem[h] = EmptyConfig /\ ifID = -1
  /\ \A e \in Live(h) : Own(e)
  /\ \A e, f \in Live(h) : Numbered(e.conn) /\ Numbered(f.conn) /\ e.name = f.name
                              => e.conn = f.conn
  /\ pc[h] = "append" => /\ Own(Entry(h))
                         /\ Numbered(job[h].conn) =>
                               \A e \in Listed(h) : Numbered(e.conn) => e.name # job[h].name

(* A Request carries its client into the object and from there, whole,     *)
(* into the message; a Close carries nothing but what is its client's.     *)
Carried(h) ==
  /\ pc[h] \in {"route", "nat", "send", "update", "undo"} => Entry(h) \in Listed(h)
  /\ pc[h] \in {"nat", "send", "update", "undo"} => job[h].conn \in mem[h].routes
  /\ NatIP /\ pc[h] \in {"send", "update", "undo"} =>
       /\ job[h].name \in mem[h].nat.ifs
       /\ job[h].conn \in Forwarded => job[h].conn \in mem[h].nat.dnat
  /\ pc[h] \in {"update", "undo"} => /\ Sent(h) = Listed(h)
                                     /\ job[h].msg.routes = mem[h].routes
                                     /\ job[h].msg.nat = mem[h].nat
  /\ pc[h] = "undo" => "update" \in Faults
  /\ Cutting(h) => job[h].msg.routes \subseteq {job[h].conn} /\ job[h].msg.nat = NoNat

(* When no entry is added nor a number handed out, names stay their own.   *)
LEMMA NamesStay ==
  ASSUME NEW h, Handler = {h}, Serial(h), NamesOwn(h), UNCHANGED ifID,
         pc'[h] # "append", Live(h)' \subseteq Live(h),
         dp' = None => dp = None /\ mem'[h] = mem[h]
  PROVE  NamesOwn(h)'
BY DEF NamesOwn, Own

(* The entries alone, and those of a Delete.                               *)
LEMMA SameEntries ==
  ASSUME NEW h
  PROVE  /\ mem'[h] = mem[h] => Listed(h)' = Listed(h)
         /\ job'[h].msg = job[h].msg => Sent(h)' = Sent(h)
         /\ EmptyConfig = mem'[h] => Listed(h)' = {}
         /\ EmptyMsg = job'[h].msg => Sent(h)' = {}
<1>1. \A i : i \notin 1..0
  OBVIOUS
<1>2. DOMAIN << >> = {}
  OBVIOUS
<1> QED
  BY <1>1, <1>2 DEF Listed, Sent, EmptyConfig, EmptyMsg

(* The append adds one entry to what is listed.                            *)
LEMMA ListsEntries ==
  ASSUME NEW h, Handler = {h}, Serial(h), Lists(h)
  PROVE  Listed(h)' = Listed(h) \cup {Entry(h)}
<1>1. mem[h].len \in Nat
  BY Records
<1>2. \A i : i \in 1..(mem[h].len + 1) <=> i \in 1..mem[h].len \/ i = mem[h].len + 1
  BY <1>1
<1>3. Listed(h)' = {mem'[h].arr[i] : i \in 1..(mem[h].len + 1)}
  BY DEF Lists, Listed
<1> QED
  BY <1>2, <1>3 DEF Lists, Listed

(* What is cut is the client's own; all other entries stay.                *)
LEMMA CutsEntries ==
  ASSUME NEW h, Handler = {h}, Serial(h), Cuts(h)
  PROVE  /\ Listed(h) = Listed(h)' \cup Sent(h)'
         /\ \A e \in Sent(h)' : e.conn = job[h].conn
<1> DEFINE i == job[h].n
           l == mem[h].len
           s == mem[h].arr
<1>1. l \in Nat /\ i \in 1..l
  BY Records DEF Cuts
<1>2. Sent(h)' = {s[i]} /\ s[i].conn = job[h].conn
  BY DEF Cuts
<1>3. Listed(h)' = {mem'[h].arr[k] : k \in 1..(l - 1)}
  BY DEF Cuts, Listed
<1>4. \A k \in 1..(l - 1) : mem'[h].arr[k] = s[IF k >= i THEN k + 1 ELSE k]
  BY DEF Cuts
<1>5. ASSUME NEW e \in Listed(h)' PROVE e \in Listed(h)
  <2>1. PICK k \in 1..(l - 1) : e = mem'[h].arr[k]
    BY <1>3
  <2>2. (IF k >= i THEN k + 1 ELSE k) \in 1..l
    BY <1>1
  <2> QED
    BY <1>4, <2>1, <2>2 DEF Listed
<1>6. ASSUME NEW e \in Listed(h), e # s[i] PROVE e \in Listed(h)'
  <2>1. PICK k \in 1..l : e = s[k]
    BY DEF Listed
  <2>2. CASE k < i
    <3>1. k \in 1..(l - 1) /\ mem'[h].arr[k] = s[k]
      BY <1>1, <1>4, <2>2
    <3> QED
      BY <1>3, <2>1, <3>1
  <2>3. CASE k > i
    <3>1. k - 1 \in 1..(l - 1) /\ k - 1 >= i /\ (k - 1) + 1 = k
      BY <1>1, <2>3
    <3>2. mem'[h].arr[k - 1] = s[k]
      BY <1>4, <3>1
    <3> QED
      BY <1>3, <2>1, <3>1, <3>2
  <2> QED
    BY <1>1, <1>6, <2>1, <2>2, <2>3
<1>7. s[i] \in Listed(h)
  BY <1>1 DEF Listed
<1> QED
  BY <1>2, <1>5, <1>6, <1>7

(* Every step keeps the names of the entries their clients' own.           *)
LEMMA NamesStep ==
  ASSUME NEW h, Handler = {h}, Serial(h), NamesOwn(h), [Next]_vars
  PROVE  NamesOwn(h)'
<1> USE Records, SameEntries
<1> DEFINE c == job[h].conn
<1>0. Moves(h)
  BY StepMoves
<1>1. ASSUME NEW d \in Conn, Asks(h, d) \/ HangsUp(h, d) PROVE NamesOwn(h)'
  <2>1. Live(h)' = Live(h)
    BY <1>1 DEF Asks, HangsUp, Begins, Stays, Live, Cutting
  <2> QED
    BY <1>1, <2>1, NamesStay DEF Asks, HangsUp, Begins, Stays
<1>2. CASE Creates(h)
  <2>1. mem'[h] = mem[h]
    BY <1>2 DEF Creates, NamesOwn
  <2>2. Live(h)' = Live(h)
    BY <1>2, <2>1 DEF Creates, Live, Cutting
  <2> QED
    BY <1>2, <2>2, NamesStay DEF Creates
<1>3. CASE IsNamed(h)
  <2>1. Live(h)' = Listed(h) /\ Live(h) = Listed(h) /\ Listed(h)' = Listed(h)
    BY <1>3 DEF IsNamed, Live, Cutting
  <2>2. ifID \in Int /\ 0..ifID \subseteq 0..ifID' /\ ifID >= -1
    BY <1>3 DEF IsNamed
  <2>3. \A e \in Listed(h) : Own(e)'
    BY <2>1, <2>2 DEF NamesOwn, Own
  <2>4. /\ job'[h].conn = c
        /\ job'[h].name = IF Numbered(c) THEN ifID' ELSE LabelOf[c]
        /\ Numbered(c) => ifID' = ifID + 1
    BY <1>3 DEF IsNamed, Numbered
  <2>5. Own(Entry(h))'
    BY <2>2, <2>4 DEF Own, Entry
  <2>6. Numbered(c) => \A e \in Listed(h) : Numbered(e.conn) => e.name # job'[h].name
    BY <2>1, <2>2, <2>4 DEF NamesOwn, Own
  <2> QED
    BY <1>3, <2>1, <2>3, <2>4, <2>5, <2>6 DEF IsNamed, NamesOwn
<1>4. CASE Lists(h)
  <2>1. Live(h)' = Listed(h) \cup {Entry(h)} /\ Live(h) = Listed(h)
    BY <1>4, ListsEntries DEF Lists, Live, Cutting
  <2>2. \A e \in Live(h)' : Own(e) /\ Own(e)'
    BY <1>4, <2>1 DEF Lists, NamesOwn, Own
  <2>3. Entry(h).conn = c /\ Entry(h).name = job[h].name
    BY DEF Entry
  <2>4. \A e, f \in Live(h)' : Numbered(e.conn) /\ Numbered(f.conn) /\ e.name = f.name
                                 => e.conn = f.conn
    BY <1>4, <2>1, <2>3 DEF Lists, NamesOwn
  <2> QED
    BY <1>4, <2>2, <2>4 DEF Lists, NamesOwn
<1>5. CASE IsRouted(h) \/ IsNatted(h)
  <2>1. Listed(h)' = Listed(h)
    BY <1>5 DEF IsRouted, IsNatted, Holds, Listed
  <2>2. Live(h)' = Live(h)
    BY <1>5, <2>1 DEF IsRouted, IsNatted, Live, Cutting
  <2> QED
    BY <1>5, <2>2, NamesStay DEF IsRouted, IsNatted, Holds
<1>6. CASE IsSent(h) \/ Refuses(h) \/ Updates(h) \/ UpdatesPart(h) \/ Deletes(h)
           \/ DeletesPart(h) \/ Looks(h) \/ GetsReady(h) \/ UNCHANGED vars
  <2>1. /\ Stays /\ (Cutting(h)' => Cutting(h) \/ pc[h] = "find")
        /\ (Cutting(h)' => job'[h].msg = job[h].msg)
        /\ pc'[h] = pc[h] \/ pc'[h] # "append"
    BY <1>6 DEF IsSent, Refuses, Updates, UpdatesPart, Deletes, DeletesPart, Looks,
                GetsReady, Ends, Stays, Cutting, vars
  <2>2. pc[h] = "find" => Sent(h) = {}
    <3>1. pc[h] = "find" => job[h].msg = EmptyMsg
      BY DEF Serial, Stage
    <3>2. job[h].msg = EmptyMsg => Sent(h) = {}
      BY DEF Sent, EmptyMsg
    <3> QED
      BY <3>1, <3>2
  <2>3. Live(h)' \subseteq Live(h)
    BY <2>1, <2>2 DEF Live, Stays
  <2>4. CASE pc'[h] # "append"
    BY <2>1, <2>3, <2>4, NamesStay DEF Stays
  <2>5. CASE pc'[h] = "append"
    <3>1. UNCHANGED vars
      BY <1>6, <2>5 DEF IsSent, Refuses, Updates, UpdatesPart, Deletes, DeletesPart,
                        Looks, GetsReady, Ends
    <3> QED
      BY <2>3, <3>1 DEF vars, NamesOwn, Own, Listed, Entry
  <2> QED
    BY <2>4, <2>5
<1>7. CASE Cuts(h)
  <2>1. Live(h)' = Live(h)
    BY <1>7, CutsEntries DEF Cuts, Live, Cutting
  <2> QED
    BY <1>7, <2>1, NamesStay DEF Cuts
<1>8. CASE Restarts(h)
  <2>1. Live(h)' = {}
    BY <1>8 DEF Restarts, Live, Cutting
  <2> QED
    BY <1>8, <2>1 DEF Restarts, NamesOwn
<1>9. CASE TurnsAway
  BY <1>9 DEF TurnsAway, NamesOwn, Own, Live, Cutting, Listed, Sent, Entry
<1> QED
  BY <1>0, <1>1, <1>2, <1>3, <1>4, <1>5, <1>6, <1>7, <1>8, <1>9 DEF Moves

(* Every step keeps what the job of the handler carries equal to what the  *)
(* object holds.                                                           *)
LEMMA CarriedStep ==
  ASSUME NEW h, Handler = {h}, Serial(h), Carried(h), [Next]_vars
  PROVE  Carried(h)'
<1> USE Records, SameEntries
<1> DEFINE c == job[h].conn
<1>0. Moves(h)
  BY StepMoves
<1>1. ASSUME NEW d \in Conn, Asks(h, d) \/ HangsUp(h, d) PROVE Carried(h)'
  <2>1. pc'[h] \in {"new", "build", "find"}
    BY <1>1 DEF Asks, HangsUp
  <2> QED
    BY <2>1 DEF Carried, Cutting
<1>2. CASE Creates(h) \/ IsNamed(h) \/ Restarts(h)
  <2>1. pc'[h] \in {"build", "append", "idle"}
    BY <1>2 DEF Creates, IsNamed, Restarts
  <2> QED
    BY <2>1 DEF Carried, Cutting
<1>3. CASE Lists(h)
  <2>1. pc'[h] = "route" /\ Entry(h)' = Entry(h) /\ Entry(h) \in Listed(h)'
    BY <1>3, ListsEntries DEF Lists, Entry
  <2> QED
    BY <2>1 DEF Carried, Cutting
<1>4. CASE IsRouted(h)
  <2>1. /\ pc[h] = "route" /\ pc'[h] = IF NatIP THEN "nat" ELSE "send"
        /\ Listed(h)' = Listed(h) /\ Entry(h)' = Entry(h) /\ job' = job
        /\ c \in mem'[h].routes
    BY <1>4 DEF IsRouted, Holds, Listed, Entry
  <2>2. pc'[h] \in {"nat", "send"} /\ (pc'[h] = "send" => ~NatIP)
    BY <2>1
  <2> QED
    BY <2>1, <2>2 DEF Carried, Cutting
<1>5. CASE IsNatted(h)
  <2>1. /\ pc[h] = "nat" /\ pc'[h] = "send"
        /\ Listed(h)' = Listed(h) /\ Entry(h)' = Entry(h) /\ job' = job
        /\ mem'[h].routes = mem[h].routes
        /\ job[h].name \in mem'[h].nat.ifs
        /\ c \in Forwarded => c \in mem'[h].nat.dnat
    BY <1>5 DEF IsNatted, Holds, Listed, Entry
  <2> QED
    BY <2>1 DEF Carried, Cutting
<1>6. CASE IsSent(h)
  <2>1. /\ pc[h] = "send" /\ pc'[h] = "update"
        /\ mem' = mem /\ Listed(h)' = Listed(h) /\ Entry(h)' = Entry(h)
    BY <1>6 DEF IsSent, Stays, Entry
  <2> QED
    BY <1>6, <2>1 DEF IsSent, Carried, Cutting
<1>7. CASE Refuses(h) \/ Updates(h) \/ Deletes(h) \/ DeletesPart(h)
  <2>1. pc'[h] = "idle"
    BY <1>7 DEF Refuses, Updates, Deletes, DeletesPart, Ends
  <2> QED
    BY <2>1 DEF Carried, Cutting
<1>8. CASE UpdatesPart(h)
  <2>1. /\ pc[h] = "update" /\ pc'[h] = "undo" /\ "update" \in Faults
        /\ mem' = mem /\ job' = job
        /\ Listed(h)' = Listed(h) /\ Sent(h)' = Sent(h) /\ Entry(h)' = Entry(h)
    BY <1>8 DEF UpdatesPart, Stays, Entry
  <2> QED
    BY <2>1 DEF Carried, Cutting
<1>9. CASE Looks(h)
  <2>1. /\ pc'[h] \in {"sendcut", "cut", "panic"} /\ job'[h].msg = EmptyMsg
    BY <1>9 DEF Looks, Serial, Stage
  <2> QED
    BY <2>1 DEF Carried, Cutting, EmptyMsg
<1>10. CASE Cuts(h)
  <2>1. /\ pc'[h] = "sendcut" /\ job'[h].conn = c
        /\ job'[h].msg.routes \subseteq {c} /\ job'[h].msg.nat = NoNat
    BY <1>10 DEF Cuts
  <2> QED
    BY <2>1 DEF Carried, Cutting
<1>11. CASE GetsReady(h)
  <2>1. pc[h] = "sendcut" /\ pc'[h] = "delete" /\ job' = job
    BY <1>11 DEF GetsReady
  <2> QED
    BY <2>1 DEF Carried, Cutting
<1>12. CASE TurnsAway \/ UNCHANGED vars
  BY <1>12 DEF TurnsAway, vars, Carried, Cutting, Listed, Sent, Entry
<1> QED
  BY <1>0, <1>1, <1>2, <1>3, <1>4, <1>5, <1>6, <1>7, <1>8, <1>9, <1>10, <1>11, <1>12
     DEF Moves

(* ConfigureNat adds the pool for the first client only; as long as no     *)
(* directory is missing, nobody is programmed before that.                 *)
Pooled(h) ==
  "mkdir" \notin Faults /\ NatIP /\ ~mem[h].nat.pool =>
     /\ pc[h] \notin {"send", "update", "undo"}
     /\ ifID = -1 \/ (ifID = 0 /\ pc[h] \in {"append", "route", "nat"})

(* Every step keeps the pool in the configuration once a client got past   *)
(* ConfigureNat.                                                           *)
LEMMA PooledStep ==
  ASSUME NEW h, Handler = {h}, Serial(h), NamesOwn(h), Pooled(h), [Next]_vars
  PROVE  Pooled(h)'
<1> USE Records
<1>0. Moves(h)
  BY StepMoves
<1>1. ASSUME NEW d \in Conn, Asks(h, d) \/ HangsUp(h, d) PROVE Pooled(h)'
  <2>1. pc[h] = "idle" /\ mem' = mem /\ ifID' = ifID /\ pc'[h] \in {"new", "build", "find"}
    BY <1>1 DEF Asks, HangsUp, Begins, Stays
  <2> QED
    BY <2>1 DEF Pooled
<1>2. CASE Creates(h) \/ Restarts(h)
  <2>1. ifID' = -1 /\ pc'[h] \in {"build", "idle"}
    BY <1>2 DEF Creates, Restarts, NamesOwn
  <2> QED
    BY <2>1 DEF Pooled
<1>3. CASE IsNamed(h)
  <2>1. /\ pc[h] = "build" /\ pc'[h] = "append" /\ mem' = mem
        /\ ifID' \in {ifID, ifID + 1}
    BY <1>3 DEF IsNamed
  <2>2. ifID = -1 => ifID + 1 = 0
    OBVIOUS
  <2> QED
    BY <2>1, <2>2 DEF Pooled
<1>4. CASE Lists(h)
  <2>1. pc[h] = "append" /\ pc'[h] = "route" /\ mem'[h].nat = mem[h].nat /\ ifID' = ifID
    BY <1>4 DEF Lists
  <2> QED
    BY <2>1 DEF Pooled
<1>5. CASE IsRouted(h)
  <2>1. pc[h] = "route" /\ mem'[h].nat = mem[h].nat /\ ifID' = ifID
        /\ (NatIP => pc'[h] = "nat")
    BY <1>5 DEF IsRouted, Holds
  <2> QED
    BY <2>1 DEF Pooled
<1>6. CASE IsNatted(h)
  <2>1. /\ pc[h] = "nat"
        /\ mem'[h].nat.pool = (mem[h].nat.pool \/ ifID \in {-1, 0})
    BY <1>6 DEF IsNatted, Holds
  <2> QED
    BY <2>1 DEF Pooled
<1>7. CASE IsSent(h) \/ Refuses(h) \/ Updates(h) \/ UpdatesPart(h) \/ Deletes(h)
           \/ DeletesPart(h) \/ Looks(h) \/ GetsReady(h)
  <2>1. /\ mem' = mem /\ ifID' = ifID
        /\ pc'[h] \in {"update", "undo"} => pc[h] \in {"send", "update"}
        /\ pc[h] \in {"append", "route", "nat"} => pc[h] = "route" /\ "mkdir" \in Faults
    BY <1>7 DEF IsSent, Refuses, Updates, UpdatesPart, Deletes, DeletesPart, Looks,
                GetsReady, Ends, Stays
  <2>2. pc'[h] # "send"
    BY <1>7 DEF IsSent, Refuses, Updates, UpdatesPart, Deletes, DeletesPart, Looks,
                GetsReady, Ends, Stays
  <2> QED
    BY <2>1, <2>2 DEF Pooled
<1>8. CASE Cuts(h)
  <2>1. pc[h] = "cut" /\ pc'[h] = "sendcut" /\ mem'[h].nat = mem[h].nat /\ ifID' = ifID
    BY <1>8 DEF Cuts
  <2> QED
    BY <2>1 DEF Pooled
<1>9. CASE TurnsAway \/ UNCHANGED vars
  BY <1>9 DEF TurnsAway, vars, Pooled
<1> QED
  BY <1>0, <1>1, <1>2, <1>3, <1>4, <1>5, <1>6, <1>7, <1>8, <1>9 DEF Moves

-----------------------------------------------------------------------------
(* Two clients have two labels, and no label reads like a numbered name:   *)
(* the case in which VPP, which knows interfaces by their names, can hold  *)
(* an interface for every client.                                          *)
DistinctLabels ==
  /\ \A c, d \in Conn : LabelOf[c] = LabelOf[d] /\ LabelOf[c] # None => c = d
  /\ Label \cap 0..MaxInterfaces = {}

(* Different clients have entries under different names.                   *)
LEMMA OneName ==
  ASSUME NEW h, Handler = {h}, Serial(h), NamesOwn(h), DistinctLabels
  PROVE  \A e, f \in Live(h) : e.name = f.name => e.conn = f.conn
<1> SUFFICES ASSUME NEW e \in Live(h), NEW f \in Live(h), e.name = f.name
             PROVE  e.conn = f.conn
  OBVIOUS
<1>1. e.conn \in Conn /\ f.conn \in Conn /\ Own(e) /\ Own(f)
  BY Records DEF Live, Item, NamesOwn
<1>2. 0..ifID \subseteq 0..MaxInterfaces
  BY Records
<1>3. \A c \in Conn : ~Numbered(c) => LabelOf[c] \in Label
  BY DEF Label, Numbered
<1>4. CASE Numbered(e.conn) /\ Numbered(f.conn)
  BY <1>4 DEF NamesOwn
<1>5. CASE ~Numbered(e.conn) /\ ~Numbered(f.conn)
  BY <1>1, <1>5 DEF Own, DistinctLabels, Numbered
<1>6. CASE Numbered(e.conn) /\ ~Numbered(f.conn)
  BY <1>1, <1>2, <1>3, <1>6 DEF Own, DistinctLabels
<1>7. CASE ~Numbered(e.conn) /\ Numbered(f.conn)
  BY <1>1, <1>2, <1>3, <1>7 DEF Own, DistinctLabels
<1> QED
  BY <1>4, <1>5, <1>6, <1>7

(* An open client has an entry whose interface VPP has, its route, and its *)
(* NAT entries.                                                            *)
Provided(h, c) ==
  /\ c \in vpp.routes
  /\ \E e \in Listed(h) : /\ e.conn = c /\ vpp.ifs[e.name] = c
                          /\ NatIP => e.name \in vpp.nat.ifs
  /\ NatIP /\ "mkdir" \notin Faults => vpp.nat.pool
  /\ NatIP /\ c \in Forwarded => c \in vpp.nat.dnat

Served(h) == \A c \in Conn : client[c] = "open" => Provided(h, c)

(* What stays provided: nothing of the client goes from the object or from *)
(* VPP.                                                                    *)
LEMMA ProvidedStays ==
  ASSUME NEW h, NEW c, Provided(h, c),
         \A e \in Listed(h) : e.conn = c =>
            /\ e \in Listed(h)'
            /\ vpp.ifs[e.name] = c => vpp'.ifs[e.name] = c
         , c \in vpp'.routes
         , vpp.nat.ifs \subseteq vpp'.nat.ifs
         , vpp.nat.pool => vpp'.nat.pool, vpp.nat.dnat \subseteq vpp'.nat.dnat
  PROVE  Provided(h, c)'
BY DEF Provided

(* Every step keeps what an open client was promised in VPP: an Update     *)
(* sends it again, and a Delete takes out the names of one client only.    *)
LEMMA ServedStep ==
  ASSUME NEW h, Handler = {h}, DistinctLabels, "update" \notin Faults,
         Serial(h), NamesOwn(h), Carried(h), Pooled(h), Served(h), [Next]_vars
  PROVE  Served(h)'
<1> USE Records, SameEntries
<1> PICK c : c = job[h].conn
  OBVIOUS
<1>0. Moves(h)
  BY StepMoves
<1>1. ASSUME vpp' = vpp, Listed(h) \subseteq Listed(h)',
             \A d \in Conn : client'[d] = "open" => client[d] = "open"
      PROVE  Served(h)'
  BY <1>1, ProvidedStays DEF Served, Provided
<1>2. ASSUME NEW d \in Conn, Asks(h, d) \/ HangsUp(h, d) PROVE Served(h)'
  BY <1>1, <1>2 DEF Asks, HangsUp, Begins, Stays
<1>3. CASE Creates(h)
  <2>1. mem'[h] = mem[h]
    BY <1>3 DEF Creates, NamesOwn
  <2> QED
    BY <1>1, <1>3, <2>1 DEF Creates
<1>4. CASE IsNamed(h) \/ IsSent(h) \/ Refuses(h) \/ Looks(h) \/ GetsReady(h)
           \/ TurnsAway \/ UNCHANGED vars
  <2>1. /\ vpp' = vpp /\ mem' = mem
        /\ \A d \in Conn : client'[d] = "open" => client[d] = "open"
    BY <1>4 DEF IsNamed, IsSent, Refuses, Looks, GetsReady, TurnsAway, Ends, Stays, vars
  <2> QED
    BY <1>1, <2>1
<1>5. CASE Lists(h)
  BY <1>1, <1>5, ListsEntries DEF Lists
<1>6. CASE IsRouted(h) \/ IsNatted(h)
  <2>1. vpp' = vpp /\ client' = client /\ Listed(h)' = Listed(h)
    BY <1>6 DEF IsRouted, IsNatted, Holds, Listed
  <2> QED
    BY <1>1, <2>1
<1>7. CASE Updates(h)
  <2>1. /\ pc[h] = "update" /\ c \in Conn /\ Listed(h)' = Listed(h)
        /\ client' = [client EXCEPT ![c] = "open"]
        /\ Adds(h, SentNames(h), job[h].msg.routes, job[h].msg.nat)
    BY <1>7 DEF Updates, Ends, Stays
  <2>2. /\ Entry(h) \in Listed(h) /\ c \in job[h].msg.routes
        /\ Sent(h) = Listed(h) /\ Live(h) = Listed(h)
        /\ NatIP => /\ job[h].name \in job[h].msg.nat.ifs
                    /\ c \in Forwarded => c \in job[h].msg.nat.dnat
                    /\ "mkdir" \notin Faults => job[h].msg.nat.pool
    BY <2>1 DEF Carried, Pooled, Live, Cutting
  <2>3. ASSUME NEW e \in Listed(h) PROVE vpp'.ifs[e.name] = e.conn
    <3>1. e.name \in SentNames(h) /\ e.name \in Name
      BY <2>2 DEF SentNames, Item
    <3>2. [conn |-> vpp'.ifs[e.name], name |-> e.name] \in Listed(h)
      BY <2>1, <2>2, <3>1 DEF Adds
    <3> QED
      BY <2>2, <3>2, OneName
  <2>4. /\ vpp'.routes = vpp.routes \cup job[h].msg.routes
        /\ vpp'.nat.pool = (vpp.nat.pool \/ job[h].msg.nat.pool)
        /\ vpp'.nat.ifs = vpp.nat.ifs \cup job[h].msg.nat.ifs
        /\ vpp'.nat.dnat = vpp.nat.dnat \cup job[h].msg.nat.dnat
    BY <2>1 DEF Adds
  <2>5. Provided(h, c)'
    <3>1. Entry(h).conn = c /\ Entry(h).name = job[h].name
      BY DEF Entry
    <3>2. vpp'.ifs[job[h].name] = c
      BY <2>2, <2>3, <3>1
    <3>3. \E e \in Listed(h)' : /\ e.conn = c /\ vpp'.ifs[e.name] = c
                                /\ NatIP => e.name \in vpp'.nat.ifs
      BY <2>1, <2>2, <2>4, <3>1, <3>2
    <3> QED
      BY <2>2, <2>4, <3>3 DEF Provided
  <2>6. ASSUME NEW d \in Conn, client'[d] = "open", d # c PROVE Provided(h, d)'
    <3>1. Provided(h, d)
      BY <2>1, <2>6 DEF Served
    <3>2. d \in vpp'.routes
      BY <2>4, <3>1 DEF Provided
    <3> QED
      BY <2>1, <2>3, <2>4, <3>1, <3>2, ProvidedStays
  <2> QED
    BY <2>5, <2>6 DEF Served
<1>8. CASE Deletes(h) \/ DeletesPart(h)
  <2>1. /\ pc[h] = "delete" /\ c \in Conn /\ Stays
        /\ client' \in {[client EXCEPT ![c] = "closed"],
                        [client EXCEPT ![c] = "close failed"]}
    BY <1>8 DEF Deletes, DeletesPart, Ends, Carried
  <2>2. PICK S \in SUBSET SentNames(h), R \in SUBSET job[h].msg.routes :
          TakesOut(S, R, NoNat)
    <3>1. job[h].msg.nat = NoNat
      BY <2>1 DEF Carried, Cutting
    <3>2. SentNames(h) \in SUBSET SentNames(h)
          /\ job[h].msg.routes \in SUBSET job[h].msg.routes
      OBVIOUS
    <3> QED
      BY <1>8, <3>1, <3>2 DEF Deletes, DeletesPart
  <2>3. R \subseteq {c} /\ \A e \in Sent(h) : e.conn = c
    <3>1. R \subseteq {c}
      BY <2>1, <2>2 DEF Carried, Cutting
    <3>2. \A i \in 1..Len(job[h].msg.ifs) : job[h].msg.ifs[i].conn = c
      BY <2>1 DEF Serial, Stage
    <3> QED
      BY <3>1, <3>2 DEF Sent
  <2>4. /\ vpp'.routes = vpp.routes \ R
        /\ \A m \in Name : vpp'.ifs[m] = IF m \in S THEN None ELSE vpp.ifs[m]
        /\ vpp'.nat.pool = vpp.nat.pool /\ vpp'.nat.ifs = vpp.nat.ifs
        /\ vpp'.nat.dnat = vpp.nat.dnat
    <3>1. vpp.nat.pool \in BOOLEAN
      BY DEF Nat44
    <3> QED
      BY <2>2, <3>1 DEF TakesOut, NoNat
  <2>5. ASSUME NEW d \in Conn, client'[d] = "open" PROVE Provided(h, d)'
    <3>1. d # c /\ client[d] = "open"
      BY <2>1, <2>5
    <3>2. Provided(h, d)
      BY <3>1 DEF Served
    <3>3. ASSUME NEW e \in Listed(h), e.conn = d PROVE vpp'.ifs[e.name] = vpp.ifs[e.name]
      <4>1. e \in Live(h) /\ Sent(h) \subseteq Live(h)
        BY <2>1 DEF Live, Cutting
      <4>2. \A f \in Sent(h) : f.name # e.name
        BY <2>3, <3>1, <3>3, <4>1, OneName
      <4>3. e.name \in Name /\ e.name \notin S
        BY <2>2, <4>2 DEF SentNames, Item
      <4> QED
        BY <2>4, <4>3
    <3>4. d \in vpp'.routes
      BY <2>3, <2>4, <3>1, <3>2 DEF Provided
    <3>5. Listed(h)' = Listed(h)
      BY <2>1 DEF Stays
    <3> QED
      BY <2>4, <3>2, <3>3, <3>4, <3>5, ProvidedStays
  <2> QED
    BY <2>5 DEF Served
<1>9. CASE Cuts(h)
  <2>1. /\ vpp' = vpp /\ client' = client /\ client[c] = "closing"
        /\ \A e \in Listed(h) : e.conn # c => e \in Listed(h)'
    BY <1>9, CutsEntries DEF Cuts, Serial, Stage
  <2>2. ASSUME NEW d \in Conn, client'[d] = "open" PROVE Provided(h, d)'
    <3>1. d # c /\ Provided(h, d)
      BY <2>1, <2>2 DEF Served
    <3> QED
      BY <2>1, <3>1 DEF Provided
  <2> QED
    BY <2>2 DEF Served
<1>10. CASE Restarts(h)
  <2>1. \A d \in Conn : client'[d] # "open"
    BY <1>10 DEF Restarts
  <2> QED
    BY <2>1 DEF Served
<1>11. ~UpdatesPart(h)
  BY DEF UpdatesPart
<1> QED
  BY <1>0, <1>2, <1>3, <1>4, <1>5, <1>6, <1>7, <1>8, <1>9, <1>10, <1>11 DEF Moves

(* No client is open at the start.                                         *)
LEMMA ServedInit ==
  ASSUME NEW h, Handler = {h}, Init
  PROVE  NamesOwn(h) /\ Carried(h) /\ Pooled(h) /\ Served(h)
<1>1. /\ pc[h] = "idle" /\ mem[h] = EmptyConfig /\ ifID = -1
      /\ \A c \in Conn : client[c] = "new"
  BY DEF Init
<1>2. Listed(h) = {}
  BY <1>1 DEF Listed, EmptyConfig
<1> QED
  BY <1>1, <1>2 DEF NamesOwn, Carried, Pooled, Served, Live, Cutting

(* Open clients are served in every behaviour in which no Update fails.    *)
THEOREM ServedInvariant ==
  ASSUME NEW h, Handler = {h}, DistinctLabels, "update" \notin Faults
  PROVE  Spec => [](Serial(h) /\ NamesOwn(h) /\ Served(h))
<1> DEFINE I == Serial(h) /\ NamesOwn(h) /\ Carried(h) /\ Pooled(h) /\ Served(h)
<1>1. Init => I
  BY SerialInit, ServedInit
<1>2. I /\ [Next]_vars => I'
  BY SerialStep, NamesStep, CarriedStep, PooledStep, ServedStep
<1>3. Spec => []I
  BY <1>1, <1>2, PTL DEF Spec
<1>4. I => Serial(h) /\ NamesOwn(h) /\ Served(h)
  OBVIOUS
<1> QED
  BY <1>3, <1>4, PTL

(* composite.go, Request: as long as no Update fails, a client whose       *)
(* request succeeded has its interface and its route in VPP until it       *)
(* closes, whatever else fails or is refused, whoever asks again or        *)
(* closes, and however often the process is started again.                 *)
THEOREM SerialOpenProgrammed ==
  ASSUME NEW h, Handler = {h}, DistinctLabels, "update" \notin Faults
  PROVE  Spec => []OpenProgrammed
<1>1. Serial(h) /\ Served(h) => OpenProgrammed
  <2> SUFFICES ASSUME Serial(h), Served(h), NEW c \in Conn, client[c] = "open"
               PROVE  HasInterface(c) /\ c \in vpp.routes
    BY DEF OpenProgrammed
  <2>1. Provided(h, c)
    BY DEF Served
  <2>2. \A e \in Listed(h) : e.name \in Name
    BY Records DEF Item
  <2> QED
    BY <2>1, <2>2 DEF Provided, HasInterface
<1> QED
  BY <1>1, ServedInvariant, PTL

(* backend.go, ConfigureNat: if directories can be made, too, the first    *)
(* client brings the pool, and every open client has NAT on the interface  *)
(* it got and its ports forwarded.                                         *)
THEOREM SerialNatServed ==
  ASSUME NEW h, Handler = {h}, DistinctLabels, Faults \cap {"mkdir", "update"} = {}
  PROVE  Spec => []NatServed
<1>1. Serial(h) /\ Served(h) => NatServed
  <2> SUFFICES ASSUME Serial(h), Served(h), NatIP, NEW c \in Conn, client[c] = "open"
               PROVE  /\ vpp.nat.pool
                      /\ \E m \in vpp.nat.ifs : vpp.ifs[m] = c
                      /\ c \in Forwarded => c \in vpp.nat.dnat
    BY DEF NatServed
  <2>1. Provided(h, c)
    BY DEF Served
  <2> QED
    BY <2>1 DEF Provided
<1>2. "update" \notin Faults
  OBVIOUS
<1> QED
  BY <1>1, <1>2, ServedInvariant, PTL

-----------------------------------------------------------------------------
(* Without a second Request of a client that is in the configuration, no   *)
(* client is in it twice, and all that VPP has is listed or about to be    *)
(* deleted: of clients that are connected, or were refused.                *)
Once(h) ==
  \A i, j \in 1..mem[h].len : mem[h].arr[i].conn = mem[h].arr[j].conn => i = j

Within(h) ==
  /\ \A m \in Name : vpp.ifs[m] # None => [conn |-> vpp.ifs[m], name |-> m] \in Live(h)
  /\ vpp.routes \subseteq LiveRoutes(h)
  /\ mem[h].routes \subseteq Held(h)
  /\ \A c \in Held(h) : client[c] \in {"asked", "open", "refused", "closing"}
  /\ pc[h] \in {"new", "build", "append", "sendcut", "delete"} => job[h].conn \notin Held(h)

(* The clients held are those of the entries.                              *)
LEMMA HeldListed ==
  ASSUME NEW h
  PROVE  /\ Held(h) = {e.conn : e \in Listed(h)}
         /\ Held(h)' = {e.conn : e \in Listed(h)'}
BY DEF Held, Listed

(* No step lists a client twice: it is asked for again only after its      *)
(* entry went.                                                             *)
LEMMA OnceStep ==
  ASSUME NEW h, Handler = {h}, Serial(h), NamesOwn(h), Once(h), Within(h), [Next]_vars
  PROVE  Once(h)'
<1> USE Records
<1> DEFINE l == mem[h].len
<1>0. Moves(h)
  BY StepMoves
<1>1. ASSUME mem'[h].len = mem[h].len, mem'[h].arr = mem[h].arr PROVE Once(h)'
  BY <1>1 DEF Once
<1>2. ASSUME NEW d \in Conn, Asks(h, d) \/ HangsUp(h, d) PROVE Once(h)'
  BY <1>1, <1>2 DEF Asks, HangsUp, Begins, Stays
<1>3. CASE Creates(h)
  BY <1>1, <1>3 DEF Creates, NamesOwn
<1>4. CASE IsNamed(h) \/ IsSent(h) \/ Refuses(h) \/ Looks(h) \/ GetsReady(h)
           \/ Updates(h) \/ UpdatesPart(h) \/ Deletes(h) \/ DeletesPart(h)
           \/ TurnsAway \/ UNCHANGED vars
  <2>1. mem' = mem
    BY <1>4 DEF IsNamed, IsSent, Refuses, Looks, GetsReady, Updates, UpdatesPart,
                Deletes, DeletesPart, TurnsAway, Ends, Stays, vars
  <2> QED
    BY <1>1, <2>1
<1>5. CASE IsRouted(h) \/ IsNatted(h)
  BY <1>1, <1>5 DEF IsRouted, IsNatted, Holds
<1>6. CASE Lists(h)
  <2>1. /\ mem'[h].len = l + 1 /\ mem'[h].arr[l + 1].conn = job[h].conn
        /\ \A i \in 1..l : mem'[h].arr[i] = mem[h].arr[i]
    BY <1>6 DEF Lists, Entry
  <2>2. \A i \in 1..l : mem[h].arr[i].conn # job[h].conn
    BY <1>6 DEF Lists, Within, Held
  <2>3. \A i \in 1..(l + 1) : i \in 1..l \/ i = l + 1
    OBVIOUS
  <2> QED
    BY <2>1, <2>2, <2>3 DEF Once
<1>7. CASE Cuts(h)
  <2> DEFINE n == job[h].n
             up(k) == IF k >= n THEN k + 1 ELSE k
  <2>1. /\ mem'[h].len = l - 1 /\ n \in 1..l
        /\ \A k \in 1..(l - 1) : mem'[h].arr[k] = mem[h].arr[up(k)]
    BY <1>7 DEF Cuts
  <2>2. \A k \in 1..(l - 1) : up(k) \in 1..l
    BY <2>1
  <2>3. \A i, j \in 1..(l - 1) : up(i) = up(j) => i = j
    BY <2>1
  <2> HIDE DEF up
  <2>4. ASSUME NEW i \in 1..(l - 1), NEW j \in 1..(l - 1),
               mem'[h].arr[i].conn = mem'[h].arr[j].conn
        PROVE  i = j
    <3>1. mem[h].arr[up(i)].conn = mem[h].arr[up(j)].conn
      BY <2>1, <2>4
    <3>2. up(i) = up(j)
      BY <2>2, <3>1 DEF Once
    <3> QED
      BY <2>3, <3>2
  <2> QED
    BY <2>1, <2>4 DEF Once
<1>8. CASE Restarts(h)
  BY <1>8 DEF Restarts, Once, EmptyConfig
<1> QED
  BY <1>0, <1>2, <1>3, <1>4, <1>5, <1>6, <1>7, <1>8 DEF Moves

(* After the cut, the client is not in the configuration any more.         *)
LEMMA CutsLast ==
  ASSUME NEW h, Handler = {h}, Serial(h), Once(h), Cuts(h)
  PROVE  job[h].conn \notin Held(h)'
<1> DEFINE l == mem[h].len
           n == job[h].n
           up(k) == IF k >= n THEN k + 1 ELSE k
<1>1. /\ l \in Nat /\ n \in 1..l /\ mem[h].arr[n].conn = job[h].conn
      /\ \A k \in 1..(l - 1) : mem'[h].arr[k] = mem[h].arr[up(k)]
  BY Records DEF Cuts
<1>2. \A k \in 1..(l - 1) : up(k) \in 1..l /\ up(k) # n
  BY <1>1
<1>3. Held(h)' = {mem'[h].arr[k].conn : k \in 1..(l - 1)}
  BY DEF Cuts, Held
<1> HIDE DEF up
<1>4. ASSUME NEW k \in 1..(l - 1), mem'[h].arr[k].conn = job[h].conn PROVE FALSE
  BY <1>1, <1>2, <1>4 DEF Once
<1> QED
  BY <1>3, <1>4

(* Without faults of the port, of a Delete or of the reset.                *)
OnceServed == Faults \subseteq {"chain", "mkdir", "update"} /\ MayReRequest = FALSE

(* No step leaves in VPP what is neither listed nor about to be deleted.   *)
LEMMA WithinStep ==
  ASSUME NEW h, Handler = {h}, OnceServed, Serial(h), NamesOwn(h), Carried(h),
         Once(h), Within(h), [Next]_vars
  PROVE  Within(h)'
<1> USE Records, SameEntries, HeldListed
<1> PICK c : c = job[h].conn
  OBVIOUS
<1>0. Moves(h) /\ Held(h) \subseteq Conn
  BY StepMoves DEF Item
<1>1. ASSUME vpp' = vpp, Live(h) \subseteq Live(h)', LiveRoutes(h) \subseteq LiveRoutes(h)',
             Held(h)' = Held(h), mem'[h].routes \subseteq mem[h].routes,
             \A d \in Held(h) : client'[d] \in {"asked", "open", "refused", "closing"},
             pc'[h] \in {"new", "build", "append", "sendcut", "delete"} =>
                job'[h].conn \notin Held(h)
      PROVE  Within(h)'
  BY <1>1 DEF Within
<1>2. ASSUME NEW d \in Conn, Asks(h, d) \/ HangsUp(h, d) PROVE Within(h)'
  <2>1. /\ pc[h] = "idle" /\ pc'[h] \in {"new", "build", "find"} /\ Stays
        /\ vpp' = vpp /\ job'[h].conn = d
        /\ client' \in {[client EXCEPT ![d] = "asked"], [client EXCEPT ![d] = "closing"]}
    BY <1>2 DEF Asks, HangsUp, Begins
  <2>2. pc'[h] # "find" => d \notin Held(h)
    BY <1>2 DEF Asks, HangsUp, Requestable, OnceServed, Within
  <2>3. Live(h)' = Live(h) /\ LiveRoutes(h)' = LiveRoutes(h) /\ Held(h)' = Held(h)
    BY <2>1 DEF Stays, Live, LiveRoutes, Cutting
  <2>4. \A f \in Held(h) : client'[f] \in {"asked", "open", "refused", "closing"}
    BY <1>0, <2>1 DEF Within
  <2> QED
    BY <1>1, <2>1, <2>2, <2>3, <2>4 DEF Stays
<1>3. CASE Creates(h) \/ IsNamed(h)
  <2>1. /\ mem'[h] = mem[h] /\ vpp' = vpp /\ client' = client
        /\ pc[h] \in {"new", "build"} /\ pc'[h] \in {"build", "append"}
        /\ job'[h].conn = c
    BY <1>3 DEF Creates, IsNamed, NamesOwn
  <2>2. Live(h)' = Live(h) /\ LiveRoutes(h)' = LiveRoutes(h) /\ Held(h)' = Held(h)
    BY <2>1 DEF Live, LiveRoutes, Cutting
  <2> QED
    BY <1>1, <2>1, <2>2 DEF Within
<1>4. CASE Lists(h)
  <2>1. /\ Listed(h)' = Listed(h) \cup {Entry(h)} /\ Entry(h).conn = c
        /\ mem'[h].routes = mem[h].routes /\ vpp' = vpp /\ client' = client
        /\ pc[h] = "append" /\ pc'[h] = "route" /\ client[c] = "asked"
    BY <1>4, ListsEntries DEF Lists, Entry, Serial, Stage, Requesting
  <2>2. /\ Live(h) \subseteq Live(h)' /\ LiveRoutes(h)' = LiveRoutes(h)
        /\ Held(h)' = Held(h) \cup {c}
    BY <2>1 DEF Live, LiveRoutes, Cutting
  <2> QED
    BY <2>1, <2>2 DEF Within
<1>5. CASE IsRouted(h) \/ IsNatted(h)
  <2>1. /\ Listed(h)' = Listed(h) /\ vpp' = vpp /\ client' = client
        /\ mem'[h].routes \in {mem[h].routes, mem[h].routes \cup {c}}
        /\ pc[h] \in {"route", "nat"} /\ pc'[h] \in {"nat", "send"} /\ c \in Held(h)
    BY <1>5 DEF IsRouted, IsNatted, Holds, Listed, Serial, Stage
  <2>2. /\ Live(h)' = Live(h) /\ LiveRoutes(h) \subseteq LiveRoutes(h)'
        /\ Held(h)' = Held(h)
    BY <2>1 DEF Live, LiveRoutes, Cutting
  <2> QED
    BY <2>1, <2>2 DEF Within
<1>6. CASE IsSent(h)
  <2>1. pc[h] = "send" /\ pc'[h] = "update" /\ Stays /\ vpp' = vpp /\ client' = client
    BY <1>6 DEF IsSent
  <2>2. Live(h)' = Live(h) /\ LiveRoutes(h)' = LiveRoutes(h) /\ Held(h)' = Held(h)
    BY <2>1 DEF Stays, Live, LiveRoutes, Cutting
  <2> QED
    BY <1>1, <2>1, <2>2 DEF Within, Stays
<1>7. CASE Refuses(h)
  <2>1. /\ pc[h] = "route" /\ pc'[h] = "idle" /\ Stays /\ vpp' = vpp
        /\ client' = [client EXCEPT ![c] = "refused"]
    BY <1>7 DEF Refuses, Ends, OnceServed
  <2>2. Live(h)' = Live(h) /\ LiveRoutes(h)' = LiveRoutes(h) /\ Held(h)' = Held(h)
    BY <2>1 DEF Stays, Live, LiveRoutes, Cutting
  <2> QED
    BY <1>1, <2>1, <2>2 DEF Within, Stays
<1>8. CASE Updates(h) \/ UpdatesPart(h)
  <2>1. /\ pc[h] = "update" /\ pc'[h] \in {"idle", "undo"} /\ Stays
        /\ client' \in {client, [client EXCEPT ![c] = "open"]}
    BY <1>8 DEF Updates, UpdatesPart, Ends
  <2>2. PICK S \in SUBSET SentNames(h), R \in SUBSET job[h].msg.routes,
             nat \in {NoNat, job[h].msg.nat} : Adds(h, S, R, nat)
    <3>1. /\ SentNames(h) \in SUBSET SentNames(h)
          /\ job[h].msg.routes \in SUBSET job[h].msg.routes
          /\ job[h].msg.nat \in {NoNat, job[h].msg.nat}
      OBVIOUS
    <3> QED
      BY <1>8, <3>1 DEF Updates, UpdatesPart
  <2>3. /\ Sent(h) = Listed(h) /\ Live(h) = Listed(h) /\ LiveRoutes(h) = mem[h].routes
        /\ R \subseteq mem[h].routes
    BY <2>1, <2>2 DEF Carried, Live, LiveRoutes, Cutting
  <2>4. /\ Live(h)' = Listed(h) /\ LiveRoutes(h)' = mem[h].routes /\ Held(h)' = Held(h)
    BY <2>1 DEF Stays, Live, LiveRoutes, Cutting
  <2>5. ASSUME NEW m \in Name, vpp'.ifs[m] # None
        PROVE  [conn |-> vpp'.ifs[m], name |-> m] \in Listed(h)
    <3>1. IF m \in S THEN [conn |-> vpp'.ifs[m], name |-> m] \in Sent(h)
                     ELSE vpp'.ifs[m] = vpp.ifs[m]
      BY <2>2 DEF Adds
    <3> QED
      BY <2>3, <2>5, <3>1 DEF Within
  <2>6. vpp'.routes \subseteq mem[h].routes
    BY <2>2, <2>3 DEF Adds, Within
  <2>7. \A d \in Held(h) : client'[d] \in {"asked", "open", "refused", "closing"}
    BY <1>0, <2>1 DEF Within
  <2>8. mem'[h].routes \subseteq Held(h)
    BY <2>1 DEF Within, Stays
  <2> QED
    BY <2>1, <2>4, <2>5, <2>6, <2>7, <2>8 DEF Within
<1>9. CASE Deletes(h) \/ DeletesPart(h)
  <2>1. /\ pc'[h] = "idle" /\ Stays
        /\ TakesOut(SentNames(h), job[h].msg.routes, job[h].msg.nat)
        /\ \/ pc[h] = "undo" /\ client' = [client EXCEPT ![c] = "open"]
           \/ pc[h] = "delete" /\ client' = [client EXCEPT ![c] = "closed"]
    BY <1>9 DEF Deletes, DeletesPart, Ends, OnceServed
  <2>2. /\ Live(h)' = Listed(h) /\ LiveRoutes(h)' = mem[h].routes /\ Held(h)' = Held(h)
    BY <2>1 DEF Stays, Live, LiveRoutes, Cutting
  <2>3. ASSUME NEW m \in Name, vpp'.ifs[m] # None
        PROVE  [conn |-> vpp'.ifs[m], name |-> m] \in Listed(h)
    <3> DEFINE e == [conn |-> vpp.ifs[m], name |-> m]
    <3>1. m \notin SentNames(h) /\ vpp'.ifs[m] = vpp.ifs[m]
      BY <2>1, <2>3 DEF TakesOut
    <3>2. e \in Live(h) /\ e.name = m
      BY <2>3, <3>1 DEF Within
    <3>3. e \notin Sent(h)
      BY <3>1, <3>2 DEF SentNames
    <3> QED
      BY <3>1, <3>2, <3>3 DEF Live
  <2>4. vpp'.routes \subseteq mem[h].routes
    BY <2>1 DEF TakesOut, Within, LiveRoutes
  <2>5. \A d \in Held(h) : client'[d] \in {"asked", "open", "refused", "closing"}
    BY <1>0, <2>1 DEF Within
  <2>6. mem'[h].routes \subseteq Held(h)
    BY <2>1 DEF Within, Stays
  <2> QED
    BY <2>1, <2>2, <2>3, <2>4, <2>5, <2>6 DEF Within
<1>10. CASE Looks(h)
  <2>1. /\ pc[h] = "find" /\ pc'[h] \in {"sendcut", "cut", "panic"}
        /\ pc'[h] = "sendcut" => c \notin Held(h)
        /\ job'[h].conn = c /\ Stays /\ vpp' = vpp /\ client' = client
    BY <1>10 DEF Looks
  <2>2. /\ Live(h) \subseteq Live(h)' /\ LiveRoutes(h) \subseteq LiveRoutes(h)'
        /\ Held(h)' = Held(h)
    BY <2>1 DEF Stays, Live, LiveRoutes, Cutting
  <2> QED
    BY <1>1, <2>1, <2>2 DEF Within, Stays
<1>11. CASE Cuts(h)
  <2>1. /\ pc[h] = "cut" /\ pc'[h] = "sendcut" /\ vpp' = vpp /\ client' = client
        /\ job'[h].conn = c
        /\ mem'[h].routes = mem[h].routes \ {c}
        /\ job'[h].msg.routes = mem[h].routes \cap {c}
    BY <1>11 DEF Cuts
  <2>2. Listed(h) = Listed(h)' \cup Sent(h)' /\ \A e \in Sent(h)' : e.conn = c
    BY <1>11, CutsEntries
  <2>3. Live(h)' = Live(h) /\ LiveRoutes(h)' = LiveRoutes(h)
    BY <2>1, <2>2 DEF Live, LiveRoutes, Cutting
  <2>4. c \notin Held(h)'
    BY <1>11, CutsLast
  <2>5. Held(h)' \subseteq Held(h) /\ \A d \in Held(h) : d # c => d \in Held(h)'
    BY <2>2
  <2> QED
    BY <2>1, <2>3, <2>4, <2>5 DEF Within
<1>12. CASE GetsReady(h)
  <2>1. /\ pc[h] = "sendcut" /\ pc'[h] = "delete"
        /\ job' = job /\ Stays /\ vpp' = vpp /\ client' = client
    BY <1>12 DEF GetsReady
  <2>2. Live(h)' = Live(h) /\ LiveRoutes(h)' = LiveRoutes(h) /\ Held(h)' = Held(h)
    BY <2>1 DEF Stays, Live, LiveRoutes, Cutting
  <2> QED
    BY <1>1, <2>1, <2>2 DEF Within, Stays
<1>13. CASE Restarts(h)
  <2>1. vpp' = EmptyVpp /\ mem'[h] = EmptyConfig /\ pc'[h] = "idle"
    BY <1>13 DEF Restarts, OnceServed
  <2>2. Listed(h)' = {} /\ Held(h)' = {}
    BY <2>1
  <2> QED
    BY <2>1, <2>2 DEF Within, EmptyVpp, EmptyConfig
<1>14. CASE UNCHANGED vars
  <2>1. pc' = pc /\ job' = job /\ mem' = mem /\ vpp' = vpp /\ client' = client
    BY <1>14 DEF vars
  <2>2. Live(h)' = Live(h) /\ LiveRoutes(h)' = LiveRoutes(h) /\ Held(h)' = Held(h)
    BY <2>1 DEF Live, LiveRoutes, Cutting
  <2> QED
    BY <1>1, <2>1, <2>2 DEF Within
<1>15. CASE TurnsAway
  <2>1. pc' = pc /\ job' = job /\ mem' = mem /\ vpp' = vpp
    BY <1>15 DEF TurnsAway
  <2>2. Live(h)' = Live(h) /\ LiveRoutes(h)' = LiveRoutes(h) /\ Held(h)' = Held(h)
    BY <2>1 DEF Live, LiveRoutes, Cutting
  <2>3. \A d \in Held(h) : client'[d] \in {"asked", "open", "refused", "closing"}
    BY <1>0, <1>15 DEF TurnsAway, Within
  <2> QED
    BY <1>1, <2>1, <2>2, <2>3 DEF Within
<1> QED
  BY <1>0, <1>2, <1>3, <1>4, <1>5, <1>6, <1>7, <1>8, <1>9, <1>10, <1>11, <1>12,
     <1>13, <1>14, <1>15 DEF Moves

(* Nothing is listed at the start, and nothing is in VPP.                  *)
LEMMA WithinInit ==
  ASSUME NEW h, Handler = {h}, Init
  PROVE  Once(h) /\ Within(h)
<1>1. /\ pc[h] = "idle" /\ mem[h] = EmptyConfig /\ vpp = EmptyVpp
  BY DEF Init
<1> QED
  BY <1>1 DEF Once, Within, Held, EmptyConfig, EmptyVpp

(* What stands in the configuration and in VPP is of a client that was not *)
(* closed.                                                                 *)
THEOREM WithinInvariant ==
  ASSUME NEW h, Handler = {h}, OnceServed
  PROVE  Spec => [](Serial(h) /\ NamesOwn(h) /\ Carried(h) /\ Once(h) /\ Within(h))
<1> DEFINE I == Serial(h) /\ NamesOwn(h) /\ Carried(h) /\ Once(h) /\ Within(h)
<1>1. Init => I
  BY SerialInit, ServedInit, WithinInit
<1>2. I /\ [Next]_vars => I'
  BY SerialStep, NamesStep, CarriedStep, OnceStep, WithinStep
<1> QED
  BY <1>1, <1>2, PTL DEF Spec

(* composite.go, Close: as long as the port and the Deletes work, and no   *)
(* client that is connected is asked for again, nothing is left of a       *)
(* client whose Close succeeded, whatever was refused, by the chain or by  *)
(* the composite, or failed to update before, also between clients whose   *)
(* labels are the same.                                                    *)
THEOREM SerialClosedIsGone ==
  ASSUME NEW h, Handler = {h}, OnceServed
  PROVE  Spec => []ClosedIsGone
<1>1. Serial(h) /\ Carried(h) /\ Within(h) => ClosedIsGone
  <2> SUFFICES ASSUME Serial(h), Carried(h), Within(h), NEW c \in Conn,
                      client[c] = "closed"
               PROVE  c \notin Configured /\ ~HasInterface(c) /\ c \notin vpp.routes
    BY DEF ClosedIsGone
  <2>1. c \notin Held(h)
    BY DEF Within
  <2>2. Cutting(h) => c # job[h].conn
    BY DEF Serial, Stage, Cutting
  <2>3. c # None
    BY DataplaneAssumption DEF DataplaneAssumption
  <2>4. \A e \in Live(h) : e.conn # c
    <3>1. \A e \in Listed(h) : e.conn # c
      BY <2>1, HeldListed
    <3>2. Cutting(h) => \A e \in Sent(h) : e.conn = job[h].conn
      BY Records DEF Serial, Stage, Cutting, Sent
    <3> QED
      BY <2>2, <3>1, <3>2 DEF Live
  <2>5. ~HasInterface(c)
    <3> SUFFICES ASSUME NEW m \in Name, vpp.ifs[m] = c PROVE FALSE
      BY DEF HasInterface
    <3>1. [conn |-> c, name |-> m] \in Live(h)
      BY <2>3 DEF Within
    <3> QED
      BY <2>4, <3>1
  <2>6. c \notin vpp.routes
    BY <2>1, <2>2 DEF Within, LiveRoutes, Carried
  <2>7. c \notin Configured
    <3>1. dp = h \/ dp = None
      BY DEF Serial, Shape
    <3> QED
      BY <2>1, <3>1 DEF Configured, Held
  <2> QED
    BY <2>5, <2>6, <2>7
<1> QED
  BY <1>1, WithinInvariant, PTL

=============================================================================
