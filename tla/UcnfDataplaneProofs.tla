------------------------ MODULE UcnfDataplaneProofs ------------------------
(***************************************************************************)
(* Proofs about UcnfDataplane, with any connections and labels, and        *)
(* whatever of mkdir, the agent and its port fails.  For one call at a     *)
(* time: no open client drops out of the configuration, and a Close        *)
(* deletes only its own interface.  For calls that overlap in any way,     *)
(* which lose the one and the other: types.                                *)
(***************************************************************************)
EXTENDS UcnfDataplane, FiniteSetTheorems, SequenceTheorems, WellFoundedInduction, TLAPS

(* The first of some places in an array, as removeClientInterface finds it.*)
LEMMA MinOf == ASSUME NEW S \in SUBSET Nat, S # {}
               PROVE  Min(S) \in S /\ \A i \in S : Min(S) <= i
<1>1. PICK m \in S : \A i \in S : ~(<<i, m>> \in OpToRel(<, Nat))
  BY NatLessThanWellFounded, WFMin
<1>2. ASSUME NEW i \in S PROVE m <= i
  <2>1. <<i, m>> \in Nat \X Nat /\ <<i, m>>[1] = i /\ <<i, m>>[2] = m
    OBVIOUS
  <2>2. ~(i < m)
    BY <1>1, <2>1 DEF OpToRel
  <2> QED
    BY <2>2
<1> QED
  BY <1>2 DEF Min

(* The last of some places, whose entry wins in the agent.                 *)
LEMMA MaxOf == ASSUME NEW n \in Nat, NEW S \in SUBSET (1..n), S # {}
               PROVE  Max(S) \in S
<1> DEFINE T == {j \in Nat : n - j \in S}
<1>1. \A i \in S : n - i \in Nat /\ n - (n - i) = i
  OBVIOUS
<1>2. T \in SUBSET Nat /\ T # {}
  BY <1>1
<1>3. Min(T) \in T /\ \A j \in T : Min(T) <= j
  <2> HIDE DEF T
  <2> QED
    BY <1>2, MinOf
<1>4. n - Min(T) \in S /\ \A i \in S : Min(T) <= n - i
  BY <1>1, <1>3
<1>5. \A i \in S : n - Min(T) >= i
  BY <1>3, <1>4
<1> QED
  BY <1>4, <1>5 DEF Max

-----------------------------------------------------------------------------
(* The types of the records, which TypeOK gives by their fields.           *)
Config == [arr : Seq(Item), len : Nat, routes : SUBSET Conn, nat : Nat44]
Msg == [ifs : Seq(Item), routes : SUBSET Conn, nat : Nat44]
Job == [conn : Conn \cup {None}, obj : Handler \cup {None}, n : Nat,
        name : Name, msg : Msg]
Vpp == [ifs : [Name -> Conn \cup {None}], routes : SUBSET Conn, nat : Nat44]
Step == {"idle", "new", "build", "append", "route", "nat", "send", "update", "undo",
         "find", "cut", "sendcut", "delete", "panic"}
Outcome == {"new", "asked", "open", "refused", "closing", "closed", "close failed", "lost"}

Shape ==
  /\ dp \in Handler \cup {None}
  /\ mem \in [Handler -> Config]
  /\ \A o \in Handler : mem[o].len <= Len(mem[o].arr)
  /\ ifID \in -1..MaxInterfaces
  /\ pc \in [Handler -> Step]
  /\ job \in [Handler -> Job]
  /\ vpp \in Vpp
  /\ client \in [Conn -> Outcome]
  /\ restarts \in 0..MaxRestarts

(* What the one handler h has to rely on, step by step: it works for a     *)
(* connection, on the object dpConfig points to, with the length it read,  *)
(* a number that is left, and an index that is right.                      *)
Requesting == {"build", "append", "route", "nat", "send", "update", "undo"}

Held(o) == {mem[o].arr[i].conn : i \in 1..mem[o].len}

Stage(h) ==
  /\ pc[h] # "idle" => job[h].conn \in Conn
  /\ pc[h] \in Requesting \cup {"new"} => client[job[h].conn] = "asked"
  /\ pc[h] \in {"find", "cut", "sendcut", "delete"} => client[job[h].conn] = "closing"
  /\ pc[h] = "new" => dp = None
  /\ pc[h] \in Requesting \cup {"cut"} => dp = h
  /\ pc[h] \in {"append", "route", "nat"} => job[h].obj = h
  /\ pc[h] = "append" => job[h].n = mem[h].len
  /\ pc[h] \in {"new", "build"} /\ LabelOf[job[h].conn] = None => ifID < MaxInterfaces
  /\ pc[h] \in {"route", "nat", "send", "update", "undo"} => job[h].conn \in Held(h)
  /\ pc[h] = "find" => job[h].msg = EmptyMsg
  /\ pc[h] = "cut" => /\ job[h].n \in 1..mem[h].len
                      /\ mem[h].arr[job[h].n].conn = job[h].conn
  /\ pc[h] \in {"sendcut", "delete"} =>
       \A i \in 1..Len(job[h].msg.ifs) : job[h].msg.ifs[i].conn = job[h].conn
  /\ pc[h] = "panic" => dp = None

(* What is open is held.                                                   *)
OpenHeld(h) == \A c \in Conn : client[c] = "open" => dp = h /\ c \in Held(h)

Serial(h) == Shape /\ Stage(h) /\ OpenHeld(h)

-----------------------------------------------------------------------------
(* What the data operators return.  An element is stored where append puts *)
(* it, and the others stay.                                                *)
LEMMA PutInto ==
  ASSUME NEW s \in Seq(Item), NEW n \in 1..(Len(s) + 1), NEW e \in Item
  PROVE  /\ Put(s, n, e) \in Seq(Item)
         /\ n <= Len(Put(s, n, e))
         /\ Put(s, n, e)[n] = e
         /\ \A i \in 1..Len(s) : i # n => Put(s, n, e)[i] = s[i]
<1>1. Len(s) \in Nat
  OBVIOUS
<1>2. CASE n > Len(s)
  <2>1. n = Len(s) + 1 /\ Put(s, n, e) = Append(s, e)
    BY <1>1, <1>2 DEF Put
  <2> QED
    BY <1>1, <2>1, AppendProperties
<1>3. CASE ~(n > Len(s))
  <2>1. n \in 1..Len(s) /\ Put(s, n, e) = [s EXCEPT ![n] = e]
    BY <1>1, <1>3 DEF Put
  <2> QED
    BY <1>1, <2>1, ExceptSeq
<1> QED
  BY <1>2, <1>3

(* The elements behind the one that is cut out move down by one.           *)
LEMMA CutOut ==
  ASSUME NEW h, mem[h].arr \in Seq(Item), NEW i \in Nat,
         mem[h].len \in Nat, mem[h].len <= Len(mem[h].arr)
  PROVE  /\ CutArray(h, i) \in Seq(Item)
         /\ Len(CutArray(h, i)) = Len(mem[h].arr)
         /\ \A k \in 1..(mem[h].len - 1) :
              CutArray(h, i)[k] = mem[h].arr[IF k >= i THEN k + 1 ELSE k]
<1> DEFINE s == mem[h].arr
           l == mem[h].len
<1>1. Len(s) \in Nat /\ DOMAIN s = 1..Len(s) /\ \A k \in 1..Len(s) : s[k] \in Item
  BY LenProperties, ElementOfSeq
<1>2. CutArray(h, i) = [k \in 1..Len(s) |-> IF k \in i..(l - 1) THEN s[k + 1] ELSE s[k]]
  BY <1>1 DEF CutArray
<1>3. \A k \in 1..Len(s) : k \in i..(l - 1) => k + 1 \in 1..Len(s)
  BY <1>1
<1>4. CutArray(h, i) \in [1..Len(s) -> Item]
  BY <1>1, <1>2, <1>3
<1>5. CutArray(h, i) \in Seq(Item) /\ Len(CutArray(h, i)) = Len(s)
  BY <1>1, <1>4, IsASeq
<1>6. \A k \in 1..(l - 1) : CutArray(h, i)[k] = s[IF k >= i THEN k + 1 ELSE k]
  BY <1>1, <1>2
<1> QED
  BY <1>5, <1>6

(* The agent keeps the type of what it has, whatever part it applies.      *)
LEMMA AgentTypes ==
  ASSUME vpp \in Vpp, NEW msg \in Msg, NEW S \in SUBSET Names(msg),
         NEW R \in SUBSET Conn, NEW nat \in Nat44
  PROVE  Programmed(msg, S, R, nat) \in Vpp /\ Removed(S, R, nat) \in Vpp
<1>1. /\ msg.ifs \in Seq(Item) /\ Len(msg.ifs) \in Nat /\ DOMAIN msg.ifs = 1..Len(msg.ifs)
      /\ \A i \in 1..Len(msg.ifs) : msg.ifs[i] \in Item
  BY LenProperties, ElementOfSeq DEF Msg
<1>2. ASSUME NEW m \in S
      PROVE  msg.ifs[Max({i \in DOMAIN msg.ifs : msg.ifs[i].name = m})].conn \in Conn
  <2> DEFINE I == {i \in DOMAIN msg.ifs : msg.ifs[i].name = m}
  <2>1. I \in SUBSET (1..Len(msg.ifs)) /\ I # {}
    BY <1>1 DEF Names
  <2>2. Max(I) \in I
    <3> HIDE DEF I
    <3> QED
      BY <1>1, <2>1, MaxOf
  <2> QED
    BY <1>1, <2>1, <2>2 DEF Item
<1>3. vpp.ifs \in [Name -> Conn \cup {None}] /\ vpp.routes \in SUBSET Conn /\ vpp.nat \in Nat44
  BY DEF Vpp
<1>4. /\ Programmed(msg, S, R, nat).ifs \in [Name -> Conn \cup {None}]
      /\ Removed(S, R, nat).ifs \in [Name -> Conn \cup {None}]
  BY <1>2, <1>3 DEF Programmed, Removed
<1>5. /\ Programmed(msg, S, R, nat).routes \in SUBSET Conn
      /\ Removed(S, R, nat).routes \in SUBSET Conn
  BY <1>3 DEF Programmed, Removed
<1>6. /\ Programmed(msg, S, R, nat).nat \in Nat44
      /\ Removed(S, R, nat).nat \in Nat44
  BY <1>3 DEF Programmed, Removed, Nat44
<1>7. /\ Programmed(msg, S, R, nat) = [ifs |-> Programmed(msg, S, R, nat).ifs,
                                       routes |-> Programmed(msg, S, R, nat).routes,
                                       nat |-> Programmed(msg, S, R, nat).nat]
      /\ Removed(S, R, nat) = [ifs |-> Removed(S, R, nat).ifs,
                               routes |-> Removed(S, R, nat).routes,
                               nat |-> Removed(S, R, nat).nat]
  BY DEF Programmed, Removed
<1> QED
  BY <1>4, <1>5, <1>6, <1>7 DEF Vpp
-----------------------------------------------------------------------------
(* The steps of the one handler.  They start from empty records.           *)
LEMMA ConfigTypes ==
  /\ EmptyConfig \in Config /\ EmptyMsg \in Msg /\ NoJob \in Job /\ EmptyVpp \in Vpp
  /\ NoNat \in Nat44 /\ Len(EmptyConfig.arr) = 0 /\ EmptyConfig.len = 0
  /\ 0 \in Name
<1>1. 0 \in Name
  BY DataplaneAssumption DEF DataplaneAssumption, Name
<1>2. NoNat \in Nat44
  BY DEF NoNat, Nat44
<1>3. << >> \in Seq(Item) /\ Len(<< >>) = 0
  BY EmptySeq
<1>4. EmptyConfig \in Config /\ EmptyMsg \in Msg
  BY <1>2, <1>3 DEF EmptyConfig, EmptyMsg, Config, Msg
<1>5. NoJob \in Job
  BY <1>1, <1>4 DEF NoJob, Job
<1>6. EmptyVpp \in Vpp
  BY <1>2 DEF EmptyVpp, Vpp
<1> QED
  BY <1>1, <1>2, <1>3, <1>4, <1>5, <1>6 DEF EmptyConfig

(* A handler that returns leaves what it programmed and tells the client.  *)
LEMMA ReturnKept ==
  ASSUME NEW h, Handler = {h}, Serial(h), pc[h] \notin {"idle", "panic", "new"},
         NEW o \in Outcome \ {"new", "asked"}, Return(h, o), vpp' \in Vpp,
         UNCHANGED <<dp, mem, ifID, restarts>>,
         o = "open" => dp = h /\ job[h].conn \in Held(h)
  PROVE  Serial(h)'
<1> USE DEF Serial, Shape
<1>1. /\ pc' = [pc EXCEPT ![h] = "idle"]
      /\ client' = [client EXCEPT ![job[h].conn] = o]
      /\ job' = [job EXCEPT ![h] = NoJob]
  BY DEF Return, Goto
<1>2. h \in Handler /\ job[h].conn \in Conn /\ h # None
  BY DataplaneAssumption DEF Stage, Step, DataplaneAssumption
<1>3. Shape'
  BY <1>1, <1>2, ConfigTypes DEF Step
<1>4. pc'[h] = "idle"
  BY <1>1, <1>2
<1>5. Stage(h)'
  BY <1>4 DEF Stage, Requesting
<1>6. OpenHeld(h)'
  BY <1>1, <1>2 DEF OpenHeld, Held
<1> QED
  BY <1>3, <1>5, <1>6

(* A Request is refused before it begins.                                  *)
LEMMA RefusedKept ==
  ASSUME NEW h, Handler = {h}, Serial(h), NEW c \in Conn, UNCHANGED restarts,
         ChainRefuses(c)
  PROVE  Serial(h)'
<1> USE DEF Serial, Shape
<1>1. /\ client[c] # "asked" /\ client[c] # "closing"
      /\ client' = [client EXCEPT ![c] = "refused"]
      /\ UNCHANGED <<dp, mem, ifID, pc, job, vpp>>
  BY Zenon DEF ChainRefuses, Requestable
<1>2. Shape'
  BY <1>1 DEF Outcome
<1>3. \A d \in Conn : /\ client[d] \in {"asked", "closing"} => client'[d] = client[d]
                      /\ client'[d] = "open" => client[d] = "open"
  BY <1>1
<1>4. Stage(h)'
  BY <1>1, <1>3 DEF Stage, Requesting, Held
<1>5. OpenHeld(h)'
  BY <1>1, <1>3 DEF OpenHeld, Held
<1> QED
  BY <1>2, <1>4, <1>5

(* A Request begins.                                                       *)
LEMMA RequestKept ==
  ASSUME NEW h, Handler = {h}, Serial(h), NEW c \in Conn, UNCHANGED restarts,
         Request(h, c)
  PROVE  Serial(h)'
<1> USE DEF Serial, Shape
<1>1. /\ pc[h] = "idle"
      /\ LabelOf[c] = None => ifID + Cardinality(Handler) <= MaxInterfaces
      /\ job' = [job EXCEPT ![h] = [NoJob EXCEPT !.conn = c]]
      /\ client' = [client EXCEPT ![c] = "asked"]
      /\ pc' = [pc EXCEPT ![h] = IF dp = None THEN "new" ELSE "build"]
      /\ UNCHANGED <<dp, mem, ifID, vpp>>
  BY DEF Request, Goto
<1>2. /\ h \in Handler /\ h # None /\ Cardinality(Handler) = 1
      /\ MaxInterfaces \in Nat
  BY DataplaneAssumption, FS_Singleton DEF DataplaneAssumption
<1>3. [NoJob EXCEPT !.conn = c] \in Job /\ [NoJob EXCEPT !.conn = c].conn = c
  BY ConfigTypes DEF NoJob, Job
<1>4. Shape'
  BY <1>1, <1>2, <1>3 DEF Step, Outcome
<1>5. job'[h].conn = c /\ client'[c] = "asked" /\ pc'[h] = IF dp = None THEN "new" ELSE "build"
  BY <1>1, <1>2, <1>3
<1>6. Stage(h)'
  BY <1>1, <1>2, <1>5 DEF Stage, Requesting
<1>7. OpenHeld(h)'
  BY <1>1, <1>5 DEF OpenHeld, Held
<1> QED
  BY <1>4, <1>6, <1>7

(* It makes dpConfig, which was missing, and names the interface.          *)
LEMMA BuildKept ==
  ASSUME NEW h, Handler = {h}, Serial(h), UNCHANGED restarts,
         NewDPConfig(h) \/ BuildVppIfName(h)
  PROVE  Serial(h)'
<1> USE DEF Serial, Shape
<1>0. h \in Handler /\ h # None /\ MaxInterfaces \in Nat
  BY DataplaneAssumption DEF DataplaneAssumption
<1>1. CASE NewDPConfig(h)
  <2>1. /\ pc[h] = "new" /\ dp' = h
        /\ mem' = [mem EXCEPT ![h] = EmptyConfig]
        /\ pc' = [pc EXCEPT ![h] = "build"]
        /\ UNCHANGED <<ifID, job, vpp, client>>
    BY <1>1 DEF NewDPConfig, Goto
  <2>2. Shape'
    BY <1>0, <2>1, ConfigTypes DEF Step
  <2>3. pc'[h] = "build"
    BY <1>0, <2>1
  <2>4. Stage(h)'
    BY <2>1, <2>3 DEF Stage, Requesting
  <2>5. OpenHeld(h)'
    BY <1>0, <2>1, <2>3 DEF Stage, OpenHeld
  <2> QED
    BY <2>2, <2>4, <2>5
<1>2. CASE BuildVppIfName(h)
  <2> DEFINE c == job[h].conn
             j == [job[h] EXCEPT !.obj = dp, !.n = mem[dp].len,
                                 !.name = IF LabelOf[c] = None THEN ifID + 1 ELSE LabelOf[c]]
  <2>1. /\ pc[h] = "build"
        /\ ifID' = IF LabelOf[c] = None THEN ifID + 1 ELSE ifID
        /\ job' = [job EXCEPT ![h] = j]
        /\ pc' = [pc EXCEPT ![h] = "append"]
        /\ UNCHANGED <<dp, mem, vpp, client>>
    BY <1>0, <1>2 DEF BuildVppIfName, Goto, GetEndpointIfID
  <2>2. c \in Conn /\ dp = h /\ (LabelOf[c] = None => ifID < MaxInterfaces)
    BY <2>1 DEF Stage, Requesting
  <2>3. (IF LabelOf[c] = None THEN ifID + 1 ELSE LabelOf[c]) \in Name
    BY <1>0, <2>2, DataplaneAssumption DEF DataplaneAssumption, Name
  <2>4. mem[h].len \in Nat /\ job[h] \in Job
    BY <1>0 DEF Config
  <2>5. j \in Job /\ j.conn = c /\ j.obj = h /\ j.n = mem[h].len
    BY <1>0, <2>2, <2>3, <2>4 DEF Job
  <2> HIDE DEF j
  <2>6. Shape'
    BY <1>0, <2>1, <2>2, <2>5 DEF Step
  <2>7. pc'[h] = "append" /\ job'[h] = j
    BY <1>0, <2>1
  <2>8. Stage(h)'
    BY <1>0, <2>1, <2>2, <2>5, <2>7 DEF Stage, Requesting
  <2>9. OpenHeld(h)'
    BY <2>1, <2>7 DEF OpenHeld, Held
  <2> QED
    BY <2>6, <2>8, <2>9
<1> QED
  BY <1>1, <1>2

(* The new interface goes behind those that are held, which stay.          *)
LEMMA AppendKept ==
  ASSUME NEW h, Handler = {h}, Serial(h), UNCHANGED restarts, AppendInterface(h)
  PROVE  Serial(h)'
<1> USE DEF Serial, Shape
<1> DEFINE n == mem[h].len + 1
           e == [conn |-> job[h].conn, name |-> job[h].name]
           a == Put(mem[h].arr, n, e)
           m == [mem[h] EXCEPT !.arr = a, !.len = n]
<1>1. h \in Handler /\ h # None
  BY DataplaneAssumption DEF DataplaneAssumption
<1>2. pc[h] = "append" /\ job[h].obj = h /\ job[h].n = mem[h].len /\ dp = h
      /\ job[h].conn \in Conn /\ client[job[h].conn] = "asked"
  BY DEF AppendInterface, Stage, Requesting
<1>3. /\ mem' = [mem EXCEPT ![h] = m]
      /\ pc' = [pc EXCEPT ![h] = "route"]
      /\ UNCHANGED <<dp, ifID, job, vpp, client>>
  BY <1>1, <1>2 DEF AppendInterface, Goto
<1>4. /\ mem[h] \in Config /\ mem[h].arr \in Seq(Item) /\ mem[h].len \in Nat
      /\ mem[h].len <= Len(mem[h].arr) /\ Len(mem[h].arr) \in Nat
  BY <1>1, LenProperties DEF Config
<1>5. e \in Item /\ e.conn = job[h].conn
  BY <1>1, <1>2 DEF Item, Job
<1>6. n \in 1..(Len(mem[h].arr) + 1) /\ n \in Nat
  BY <1>4
<1> HIDE DEF e
<1>7. /\ a \in Seq(Item) /\ n <= Len(a) /\ a[n] = e
      /\ \A i \in 1..Len(mem[h].arr) : i # n => a[i] = mem[h].arr[i]
  BY <1>4, <1>5, <1>6, PutInto
<1> HIDE DEF a
<1>8. m \in Config /\ m.arr = a /\ m.len = n
  BY <1>4, <1>6, <1>7 DEF Config
<1> HIDE DEF m
<1>9. mem'[h] = m /\ pc'[h] = "route"
  BY <1>1, <1>3
<1>10. Held(h)' = {a[i].conn : i \in 1..n}
  BY <1>8, <1>9 DEF Held
<1>11. Held(h) \cup {job[h].conn} \subseteq Held(h)'
  <2>1. ASSUME NEW x \in Held(h) PROVE x \in Held(h)'
    <3>1. PICK i \in 1..mem[h].len : x = mem[h].arr[i].conn
      BY DEF Held
    <3>2. i \in 1..n /\ a[i] = mem[h].arr[i]
      BY <1>4, <1>7
    <3> QED
      BY <1>10, <3>1, <3>2
  <2>2. n \in 1..n
    BY <1>6
  <2> QED
    BY <1>5, <1>7, <1>10, <2>1, <2>2
<1>12. Shape'
  BY <1>1, <1>3, <1>7, <1>8 DEF Step
<1>13. Stage(h)'
  BY <1>2, <1>3, <1>9, <1>11 DEF Stage, Requesting
<1>14. OpenHeld(h)'
  BY <1>2, <1>3, <1>9, <1>11 DEF OpenHeld
<1> QED
  BY <1>12, <1>13, <1>14

(* The rest of ProcessEndpoint: mkdir may fail, the route and the NAT      *)
(* entries are added.                                                      *)
LEMMA RouteKept ==
  ASSUME NEW h, Handler = {h}, Serial(h), UNCHANGED restarts,
         MkdirFails(h) \/ AppendRoutes(h) \/ ConfigureNat(h)
  PROVE  Serial(h)'
<1>0. h \in Handler /\ h # None /\ Forwarded \subseteq Conn
  BY DataplaneAssumption DEF DataplaneAssumption
<1>1. CASE MkdirFails(h)
  <2>1. /\ pc[h] = "route" /\ Return(h, "refused") /\ vpp' \in Vpp
        /\ UNCHANGED <<dp, mem, ifID, restarts>>
    BY <1>1 DEF MkdirFails, Serial, Shape
  <2> QED
    BY <2>1, ReturnKept DEF Outcome
<1>2. ASSUME NEW m \in Config, m.arr = mem[h].arr, m.len = mem[h].len,
             mem' = [mem EXCEPT ![h] = m],
             pc[h] \in {"route", "nat"}, NEW s \in {"nat", "send"},
             pc' = [pc EXCEPT ![h] = s],
             UNCHANGED <<dp, ifID, job, vpp, client>>
      PROVE  Serial(h)'
  <2> USE DEF Serial, Shape
  <2>1. mem'[h] = m /\ pc'[h] = s
    BY <1>0, <1>2
  <2>2. Shape'
    BY <1>0, <1>2 DEF Step
  <2>3. Held(h)' = Held(h)
    BY <1>2, <2>1 DEF Held
  <2>4. Stage(h)'
    BY <1>2, <2>1, <2>3 DEF Stage, Requesting
  <2>5. OpenHeld(h)'
    BY <1>2, <2>1, <2>3 DEF OpenHeld
  <2> QED
    BY <2>2, <2>4, <2>5
<1>3. /\ mem \in [Handler -> Config] /\ mem[h] \in Config
      /\ job[h] \in Job /\ mem[h].nat \in Nat44
  BY <1>0 DEF Serial, Shape, Config
<1>4. CASE AppendRoutes(h)
  <2> DEFINE m == [mem[h] EXCEPT !.routes = @ \cup {job[h].conn}]
             s == IF NatIP THEN "nat" ELSE "send"
  <2>1. pc[h] = "route" /\ job[h].obj = h /\ job[h].conn \in Conn
    BY <1>4 DEF AppendRoutes, Serial, Stage
  <2>2. /\ mem' = [mem EXCEPT ![h] = m] /\ pc' = [pc EXCEPT ![h] = s]
        /\ UNCHANGED <<dp, ifID, job, vpp, client>>
    BY <1>0, <1>3, <1>4, <2>1 DEF AppendRoutes, Goto
  <2>3. m \in Config /\ m.arr = mem[h].arr /\ m.len = mem[h].len
    BY <1>3, <2>1 DEF Config
  <2>4. s \in {"nat", "send"}
    OBVIOUS
  <2> HIDE DEF m, s
  <2> QED
    BY <1>2, <2>1, <2>2, <2>3, <2>4
<1>5. CASE ConfigureNat(h)
  <2> DEFINE first == ifID \in {-1, 0}
             nat == mem[h].nat
             e == [pool |-> nat.pool \/ first, ifs |-> nat.ifs \cup {job[h].name},
                   dnat |-> nat.dnat \cup ({job[h].conn} \cap Forwarded)]
             m == [mem[h] EXCEPT !.nat = e]
  <2>1. pc[h] = "nat" /\ job[h].obj = h /\ job[h].conn \in Conn
    BY <1>5 DEF ConfigureNat, Natted, Serial, Stage
  <2>2. /\ mem' = [mem EXCEPT ![h] = m] /\ pc' = [pc EXCEPT ![h] = "send"]
        /\ UNCHANGED <<dp, ifID, job, vpp, client>>
    BY <1>0, <1>3, <1>5, <2>1 DEF ConfigureNat, Natted, Goto
  <2>3. e \in Nat44
    BY <1>0, <1>3, <2>1 DEF Nat44, Job
  <2> HIDE DEF e
  <2>4. m \in Config /\ m.arr = mem[h].arr /\ m.len = mem[h].len
    BY <1>3, <2>3 DEF Config
  <2> HIDE DEF m
  <2> QED
    BY <1>2, <2>1, <2>2, <2>4
<1> QED
  BY <1>1, <1>4, <1>5

(* What is sent is what dpConfig holds, and the agent's answer ends the    *)
(* call.                                                                   *)
LEMMA SendKept ==
  ASSUME NEW h, Handler = {h}, Serial(h), UNCHANGED restarts, ProcessDPConfig(h)
  PROVE  Serial(h)'
<1>0. h \in Handler /\ h # None
  BY DataplaneAssumption DEF DataplaneAssumption
<1>1. /\ job[h] \in Job /\ job[h].msg \in Msg /\ job[h].msg.routes \in SUBSET Conn
      /\ job[h].msg.nat \in Nat44 /\ vpp \in Vpp /\ NoNat \in Nat44
  BY <1>0, ConfigTypes DEF Serial, Shape, Job, Msg
<1>2. ASSUME NEW S \in SUBSET Names(job[h].msg), NEW R \in SUBSET job[h].msg.routes,
             NEW nat \in {NoNat, job[h].msg.nat}
      PROVE  Programmed(job[h].msg, S, R, nat) \in Vpp /\ Removed(S, R, nat) \in Vpp
  BY <1>1, AgentTypes
<1>3. CASE PortUnavailable(h) \/ Update(h) \/ Undo(h) \/ Delete(h) \/ DeleteFails(h)
  <2>1. vpp' \in Vpp
    BY <1>1, <1>2, <1>3 DEF PortUnavailable, Update, Undo, Delete, DeleteFails
  <2>2. UNCHANGED <<dp, mem, ifID, restarts>>
    BY <1>3 DEF PortUnavailable, Update, Undo, Delete, DeleteFails
  <2>3. \/ pc[h] \in {"send", "sendcut", "undo", "delete"}
           /\ \E o \in {"refused", "close failed", "closed"} : Return(h, o)
        \/ pc[h] \in {"update", "undo"} /\ Return(h, "open")
    BY <1>3 DEF PortUnavailable, Update, Undo, Delete, DeleteFails
  <2>4. pc[h] \in {"update", "undo"} => dp = h /\ job[h].conn \in Held(h)
    BY DEF Serial, Stage, Requesting
  <2> QED
    BY <2>1, <2>2, <2>3, <2>4, ReturnKept DEF Outcome
<1>4. CASE Send(h)
  <2> DEFINE msg == [ifs |-> Interfaces(dp), routes |-> mem[dp].routes, nat |-> mem[dp].nat]
             j == [job[h] EXCEPT !.msg = msg]
  <2>1. /\ pc[h] = "send" /\ job' = [job EXCEPT ![h] = j]
        /\ pc' = [pc EXCEPT ![h] = "update"]
        /\ UNCHANGED <<dp, mem, ifID, vpp, client>>
    BY <1>0, <1>4 DEF Send, Goto, Serial, Shape
  <2>2. dp = h
    BY <2>1 DEF Serial, Stage, Requesting
  <2>3. /\ mem[h] \in Config /\ mem[h].arr \in Seq(Item) /\ mem[h].len \in Nat
        /\ mem[h].len <= Len(mem[h].arr) /\ Len(mem[h].arr) \in Nat
        /\ mem[h].routes \in SUBSET Conn /\ mem[h].nat \in Nat44
    BY <1>0, LenProperties DEF Serial, Shape, Config
  <2>4. Interfaces(h) \in Seq(Item)
    <3>1. \A i \in 1..mem[h].len : mem[h].arr[i] \in Item
      BY <2>3, ElementOfSeq
    <3> QED
      BY <2>3, <3>1, SubSeqProperties DEF Interfaces
  <2>5. msg \in Msg
    BY <2>2, <2>3, <2>4 DEF Msg
  <2> HIDE DEF msg
  <2>6. j \in Job /\ j.conn = job[h].conn
    BY <1>1, <2>5 DEF Job
  <2> HIDE DEF j
  <2>7. job'[h] = j /\ pc'[h] = "update"
    BY <1>0, <2>1 DEF Serial, Shape
  <2>8. Shape'
    BY <1>0, <2>1, <2>6 DEF Serial, Shape, Step
  <2>9. Stage(h)'
    BY <2>1, <2>6, <2>7 DEF Serial, Stage, Held, Requesting
  <2>10. OpenHeld(h)'
    BY <2>1, <2>7 DEF Serial, OpenHeld, Held
  <2> QED
    BY <2>8, <2>9, <2>10 DEF Serial
<1>5. CASE SendCut(h) \/ UpdateFails(h)
  <2>1. /\ vpp' \in Vpp /\ UNCHANGED <<dp, mem, ifID, job, client>>
        /\ \/ pc[h] = "sendcut" /\ pc' = [pc EXCEPT ![h] = "delete"]
           \/ pc[h] = "update" /\ pc' = [pc EXCEPT ![h] = "undo"]
    BY <1>1, <1>2, <1>5 DEF SendCut, UpdateFails, Goto
  <2>2. Shape'
    BY <1>0, <2>1 DEF Serial, Shape, Step
  <2>3. \/ pc[h] = "sendcut" /\ pc'[h] = "delete"
        \/ pc[h] = "update" /\ pc'[h] = "undo"
    BY <1>0, <2>1 DEF Serial, Shape
  <2>4. Stage(h)'
    BY <2>1, <2>3 DEF Serial, Stage, Held, Requesting
  <2>5. OpenHeld(h)'
    BY <2>1, <2>3 DEF Serial, OpenHeld, Held
  <2> QED
    BY <2>2, <2>4, <2>5 DEF Serial
<1> QED
  BY <1>3, <1>4, <1>5 DEF ProcessDPConfig

(* A Close begins, and looks for the first interface of its connection.    *)
LEMMA FindKept ==
  ASSUME NEW h, Handler = {h}, Serial(h), UNCHANGED restarts,
         (\E c \in Conn : Close(h, c)) \/ FindInterface(h) \/ FindPanics(h)
  PROVE  Serial(h)'
<1>0. h \in Handler /\ h # None
  BY DataplaneAssumption DEF DataplaneAssumption
<1> USE DEF Serial, Shape
<1>1. ASSUME NEW c \in Conn, Close(h, c) PROVE Serial(h)'
  <2> DEFINE j == [NoJob EXCEPT !.conn = c, !.obj = dp]
  <2>1. /\ pc[h] = "idle" /\ client[c] \in {"open", "refused", "close failed", "lost"}
        /\ job' = [job EXCEPT ![h] = j]
        /\ client' = [client EXCEPT ![c] = "closing"]
        /\ pc' = [pc EXCEPT ![h] = "find"]
        /\ UNCHANGED <<dp, mem, ifID, vpp>>
    BY <1>1 DEF Close, Goto
  <2>2. j \in Job /\ j.conn = c /\ j.msg = EmptyMsg
    BY ConfigTypes DEF NoJob, Job
  <2> HIDE DEF j
  <2>3. Shape'
    BY <1>0, <2>1, <2>2 DEF Step, Outcome
  <2>4. pc'[h] = "find" /\ job'[h] = j /\ client'[c] = "closing"
    BY <1>0, <2>1
  <2>5. Stage(h)'
    BY <2>1, <2>2, <2>4 DEF Stage, Requesting
  <2>6. OpenHeld(h)'
    BY <2>1, <2>4 DEF OpenHeld, Held
  <2> QED
    BY <2>3, <2>5, <2>6
<1>2. CASE FindInterface(h)
  <2> DEFINE found == {i \in 1..mem[h].len : mem[h].arr[i].conn = job[h].conn}
             n == IF found = {} THEN 0 ELSE Min(found)
             s == IF found = {} THEN "sendcut" ELSE "cut"
             j == [job[h] EXCEPT !.n = n]
  <2>1. dp = h /\ pc[h] = "find"
    BY <1>2 DEF FindInterface
  <2>2. /\ job' = [job EXCEPT ![h] = j]
        /\ pc' = [pc EXCEPT ![h] = s]
        /\ UNCHANGED <<dp, mem, ifID, vpp, client>>
    BY <1>0, <1>2, <2>1 DEF FindInterface, Goto
  <2>3. mem[h].len \in Nat /\ found \in SUBSET Nat
    BY <1>0 DEF Config
  <2>4. n \in Nat /\ (found # {} => n \in found)
    <3> HIDE DEF found
    <3> QED
      BY <2>3, MinOf
  <2>5. job[h] \in Job
    BY <1>0
  <2>6. found # {} => n \in 1..mem[h].len /\ mem[h].arr[n].conn = job[h].conn
    BY <2>4
  <2>7. s = IF found = {} THEN "sendcut" ELSE "cut"
    OBVIOUS
  <2> HIDE DEF n, found, s
  <2>8. j \in Job /\ j.conn = job[h].conn /\ j.n = n /\ j.msg = job[h].msg
    BY <2>4, <2>5 DEF Job
  <2> HIDE DEF j
  <2>9. pc'[h] = s /\ job'[h] = j
    BY <1>0, <2>2
  <2>10. Shape'
    BY <1>0, <2>2, <2>7, <2>8 DEF Step
  <2>11. Stage(h)'
    <3>1. Len(j.msg.ifs) = 0
      BY <2>1, <2>8, EmptySeq DEF Stage, EmptyMsg
    <3> QED
      BY <2>1, <2>2, <2>6, <2>7, <2>8, <2>9, <3>1 DEF Stage, Requesting
  <2>12. OpenHeld(h)'
    BY <2>2, <2>7, <2>9 DEF OpenHeld, Held
  <2> QED
    BY <2>10, <2>11, <2>12
<1>3. CASE FindPanics(h)
  <2>1. /\ pc[h] = "find" /\ dp = None
        /\ pc' = [pc EXCEPT ![h] = "panic"]
        /\ UNCHANGED <<dp, mem, ifID, job, vpp, client>>
    BY <1>3 DEF FindPanics, Goto
  <2>2. Shape'
    BY <1>0, <2>1 DEF Step
  <2>3. pc'[h] = "panic"
    BY <1>0, <2>1
  <2>4. Stage(h)' /\ OpenHeld(h)'
    BY <2>1, <2>3 DEF Stage, OpenHeld, Held, Requesting
  <2> QED
    BY <2>2, <2>4
<1> QED
  BY <1>1, <1>2, <1>3

(* It takes out its own interface, and those of others stay.               *)
LEMMA CutKept ==
  ASSUME NEW h, Handler = {h}, Serial(h), UNCHANGED restarts, RemoveInterface(h)
  PROVE  Serial(h)'
<1> USE DEF Serial, Shape
<1> DEFINE i == job[h].n
           l == mem[h].len
           s == mem[h].arr
           c == job[h].conn
           m == [arr |-> CutArray(h, i), len |-> l - 1,
                 routes |-> mem[h].routes \ {c}, nat |-> mem[h].nat]
           msg == [ifs |-> <<s[i]>>, routes |-> mem[h].routes \cap {c}, nat |-> NoNat]
           j == [job[h] EXCEPT !.msg = msg]
<1>0. h \in Handler /\ h # None
  BY DataplaneAssumption DEF DataplaneAssumption
<1>1. /\ pc[h] = "cut" /\ dp = h /\ c \in Conn /\ client[c] = "closing"
      /\ i \in 1..l /\ s[i].conn = c
  BY DEF RemoveInterface, Cut, Stage
<1>2. /\ s \in Seq(Item) /\ l \in Nat /\ l <= Len(s) /\ Len(s) \in Nat
      /\ mem[h].routes \in SUBSET Conn /\ mem[h].nat \in Nat44 /\ job[h] \in Job
  BY <1>0, LenProperties DEF Config
<1>3. ~(i > l)
  BY <1>1, <1>2
<1>4. /\ mem' = [mem EXCEPT ![h] = m]
      /\ job' = [job EXCEPT ![h] = j]
      /\ pc' = [pc EXCEPT ![h] = "sendcut"]
      /\ UNCHANGED <<dp, ifID, vpp, client>>
  BY <1>0, <1>1, <1>3 DEF RemoveInterface, Cut, Goto
<1>5. /\ CutArray(h, i) \in Seq(Item) /\ Len(CutArray(h, i)) = Len(s)
      /\ \A k \in 1..(l - 1) : CutArray(h, i)[k] = s[IF k >= i THEN k + 1 ELSE k]
  BY <1>1, <1>2, CutOut
<1>6. m \in Config /\ m.arr = CutArray(h, i) /\ m.len = l - 1
  BY <1>1, <1>2, <1>5 DEF Config
<1>7. s[i] \in Item
  BY <1>1, <1>2, ElementOfSeq
<1>8. msg \in Msg /\ msg.ifs = <<s[i]>>
  BY <1>2, <1>7, ConfigTypes DEF Msg
<1> HIDE DEF m, msg
<1>9. j \in Job /\ j.conn = c /\ j.msg = msg
  BY <1>2, <1>8 DEF Job
<1> HIDE DEF j
<1>10. mem'[h] = m /\ job'[h] = j /\ pc'[h] = "sendcut"
  BY <1>0, <1>4
<1>11. ASSUME NEW d \in Held(h), d # c PROVE d \in Held(h)'
  <2>1. PICK k \in 1..l : d = s[k].conn
    BY DEF Held
  <2>2. k # i
    BY <1>1, <1>11, <2>1
  <2>3. Held(h)' = {CutArray(h, i)[x].conn : x \in 1..(l - 1)}
    BY <1>6, <1>10 DEF Held
  <2>4. CASE k < i
    <3>1. k \in 1..(l - 1) /\ CutArray(h, i)[k] = s[k]
      BY <1>1, <1>2, <1>5, <2>4
    <3> QED
      BY <2>1, <2>3, <3>1
  <2>5. CASE k > i
    <3>1. k - 1 \in 1..(l - 1) /\ k - 1 >= i /\ (k - 1) + 1 = k
      BY <1>1, <1>2, <2>5
    <3>2. CutArray(h, i)[k - 1] = s[k]
      BY <1>5, <3>1
    <3> QED
      BY <2>1, <2>3, <3>1, <3>2
  <2> QED
    BY <1>1, <1>2, <2>2, <2>4, <2>5
<1>12. Shape'
  BY <1>0, <1>2, <1>4, <1>5, <1>6, <1>9 DEF Step
<1>13. Stage(h)'
  BY <1>1, <1>4, <1>8, <1>9, <1>10 DEF Stage, Requesting
<1>14. OpenHeld(h)'
  BY <1>1, <1>4, <1>10, <1>11 DEF OpenHeld
<1> QED
  BY <1>12, <1>13, <1>14

(* A restart forgets everything but what NSM knows.                        *)
LEMMA RestartKept ==
  ASSUME NEW h, Handler = {h}, Serial(h), Restart
  PROVE  Serial(h)'
<1> USE DEF Serial, Shape
<1>0. h \in Handler /\ MaxRestarts \in Nat /\ MaxInterfaces \in Nat
  BY DataplaneAssumption DEF DataplaneAssumption
<1>1. restarts' \in 0..MaxRestarts /\ MaxRestarts # 0
  BY <1>0 DEF Restart
<1>2. vpp' \in Vpp
  BY ConfigTypes DEF Restart, ResetVppAgent
<1>3. client' \in [Conn -> Outcome] /\ \A c \in Conn : client'[c] # "open"
  BY DEF Restart, Outcome
<1>4. dp' = None /\ ifID' = -1 /\ mem' = [o \in Handler |-> EmptyConfig]
      /\ pc' = [o \in Handler |-> "idle"] /\ job' = [o \in Handler |-> NoJob]
  BY DEF Restart
<1>5. Shape'
  BY <1>0, <1>1, <1>2, <1>3, <1>4, ConfigTypes DEF Step
<1>6. pc'[h] = "idle"
  BY <1>0, <1>4
<1>7. Stage(h)'
  BY <1>6 DEF Stage, Requesting
<1> QED
  BY <1>1, <1>3, <1>5, <1>7 DEF OpenHeld

(* Every step.                                                             *)
LEMMA SerialStep ==
  ASSUME NEW h, Handler = {h}, Serial(h), [Next]_vars
  PROVE  Serial(h)'
<1>1. ASSUME NEW c \in Conn, UNCHANGED restarts, Request(h, c) PROVE Serial(h)'
  BY <1>1, RequestKept
<1>0. ASSUME NEW c \in Conn, UNCHANGED restarts, ChainRefuses(c) PROVE Serial(h)'
  BY <1>0, RefusedKept
<1>2. CASE UNCHANGED restarts /\ (NewDPConfig(h) \/ ProcessEndpoint(h))
  BY <1>2, BuildKept, AppendKept, RouteKept DEF ProcessEndpoint
<1>3. CASE UNCHANGED restarts /\ ProcessDPConfig(h)
  BY <1>3, SendKept
<1>4. CASE UNCHANGED restarts /\ ((\E c \in Conn : Close(h, c)) \/ FindInterface(h)
                                    \/ FindPanics(h) \/ RemoveInterface(h))
  BY <1>4, FindKept, CutKept
<1>5. CASE Restart
  BY <1>5, RestartKept
<1>6. CASE UNCHANGED vars
  BY <1>6 DEF vars, Serial, Shape, Stage, Held, OpenHeld
<1> QED
  BY <1>0, <1>1, <1>2, <1>3, <1>4, <1>5, <1>6 DEF Next, Call

(* The first state.                                                        *)
LEMMA SerialInit ==
  ASSUME NEW h, Handler = {h}, Init
  PROVE  Serial(h)
<1>1. MaxRestarts \in Nat /\ MaxInterfaces \in Nat
  BY DataplaneAssumption DEF DataplaneAssumption
<1>2. Shape
  BY <1>1, ConfigTypes DEF Init, Shape, Step, Outcome
<1>3. Stage(h) /\ OpenHeld(h)
  BY DEF Init, Stage, OpenHeld, Requesting
<1> QED
  BY <1>2, <1>3 DEF Serial

-----------------------------------------------------------------------------
(* With one handler, its stages hold in every state.                       *)
THEOREM SerialInvariant ==
  ASSUME NEW h, Handler = {h}
  PROVE  Spec => []Serial(h)
<1>1. Init => Serial(h)
  BY SerialInit
<1>2. Serial(h) /\ [Next]_vars => Serial(h)'
  BY SerialStep
<1> QED
  BY <1>1, <1>2, PTL DEF Spec

(* composite.go, Request and Close, one at a time: whatever fails, whoever *)
(* closes and however often the process is started again, the              *)
(* configuration that is sent next holds every open client.                *)
THEOREM SerialOpenConfigured ==
  ASSUME NEW h, Handler = {h}
  PROVE  Spec => []OpenConfigured
<1>1. Serial(h) => OpenConfigured
  <2>1. h # None
    BY DataplaneAssumption DEF DataplaneAssumption
  <2> QED
    BY <2>1 DEF Serial, OpenHeld, OpenConfigured, Configured, Held
<1> QED
  BY <1>1, SerialInvariant, PTL

(* removeClientInterface, one call at a time, whatever fails, whoever was  *)
(* refused or left from before a restart: a Close deletes the interface of *)
(* its own connection and no other, and dies only of a dpConfig that is    *)
(* nil, never of its index.                                                *)
THEOREM SerialCloseCutsOwn ==
  ASSUME NEW h, Handler = {h}
  PROVE  Spec => []CloseCutsOwn
<1>1. Serial(h) => CloseCutsOwn
  <2> SUFFICES ASSUME Serial(h)
               PROVE  /\ pc[h] = "panic" => dp = None
                      /\ pc[h] \in {"sendcut", "delete"} =>
                           \A i \in DOMAIN job[h].msg.ifs :
                             job[h].msg.ifs[i].conn = job[h].conn
    BY DEF CloseCutsOwn
  <2>1. job[h].msg.ifs \in Seq(Item)
    BY DEF Serial, Shape, Job, Msg
  <2>2. DOMAIN job[h].msg.ifs = 1..Len(job[h].msg.ifs)
    BY <2>1, LenProperties
  <2> QED
    BY <2>2 DEF Serial, Stage
<1> QED
  BY <1>1, SerialInvariant, PTL

-----------------------------------------------------------------------------
(* Any number of handlers.  What holds of each by itself: it works for a   *)
(* connection; there is an object when it needs one, and the array it      *)
(* appends to has at least the length it read, however many others have    *)
(* appended or cut since.                                                  *)
Working(h) ==
  /\ pc[h] # "idle" => job[h].conn \in Conn
  /\ pc[h] \in Requesting \cup {"cut"} => dp # None
  /\ pc[h] \in {"append", "route", "nat"} => job[h].obj # None
  /\ pc[h] = "append" => job[h].n <= Len(mem[job[h].obj].arr)
  /\ pc[h] = "cut" => job[h].n # 0

(* The object of a handler that is about to make one is not in use.        *)
Untouched ==
  /\ \A h \in Handler : pc[h] = "new" =>
       dp # h /\ mem[h] = EmptyConfig /\ \A g \in Handler : job[g].obj # h
  /\ dp = None => \A h \in Handler : mem[h] = EmptyConfig /\ job[h].obj = None

(* Every handler that will take a number finds one.                        *)
Unnamed == {h \in Handler : pc[h] \in {"new", "build"} /\ LabelOf[job[h].conn] = None}
NumbersLeft == ifID + Cardinality(Unnamed) <= MaxInterfaces

Shared == Shape /\ (\A h \in Handler : Working(h)) /\ Untouched /\ NumbersLeft

(* A step of one handler that changes objects in use only, and makes no    *)
(* array shorter, leaves the others with what they rely on.                *)
LEMMA OneWorks ==
  ASSUME Shared, NEW h \in Handler, NEW s \in Step, NEW j \in Job,
         pc' = [pc EXCEPT ![h] = s], job' = [job EXCEPT ![h] = j],
         mem' \in [Handler -> Config],
         \A o \in Handler : /\ mem'[o].len <= Len(mem'[o].arr)
                            /\ Len(mem[o].arr) <= Len(mem'[o].arr)
                            /\ mem'[o] # mem[o] => o = dp \/ o = job[h].obj,
         dp' = dp \/ (pc[h] = "new" /\ dp' = h /\ s = "build"),
         j.obj \in {dp, job[h].obj, None},
         s = "new" => dp = None,
         s # "idle" => j.conn \in Conn,
         s \in Requesting \cup {"cut"} => dp' # None,
         s \in {"append", "route", "nat"} => j.obj # None,
         s = "append" => j.n <= Len(mem'[j.obj].arr),
         s = "cut" => j.n # 0,
         ifID' \in -1..MaxInterfaces, NumbersLeft',
         vpp' \in Vpp, client' \in [Conn -> Outcome], restarts' = restarts
  PROVE  Shared'
<1> USE DEF Shared, Shape
<1>1. None \notin Handler
  BY DataplaneAssumption DEF DataplaneAssumption
<1>2. /\ pc'[h] = s /\ job'[h] = j
      /\ \A g \in Handler : g # h => pc'[g] = pc[g] /\ job'[g] = job[g]
  OBVIOUS
<1>3. Shape'
  <2>1. dp' \in Handler \cup {None}
    OBVIOUS
  <2>2. pc' \in [Handler -> Step] /\ job' \in [Handler -> Job]
    OBVIOUS
  <2> QED
    BY <2>1, <2>2
<1>4. ASSUME NEW g \in Handler PROVE Working(g)'
  <2>1. CASE g = h
    BY <1>2, <2>1 DEF Working
  <2>2. CASE g # h
    <3>1. pc'[g] = pc[g] /\ job'[g] = job[g] /\ Working(g)
      BY <1>2, <2>2
    <3>2. dp # None => dp' # None
      BY <1>1
    <3>3. ASSUME pc[g] = "append" PROVE job[g].n <= Len(mem'[job[g].obj].arr)
      <4>1. job[g] \in Job /\ job[g].obj \in Handler /\ job[g].n \in Nat
        BY <3>1, <3>3 DEF Working, Job
      <4>2. /\ mem[job[g].obj].arr \in Seq(Item) /\ mem'[job[g].obj].arr \in Seq(Item)
        BY <4>1 DEF Config
      <4>3. /\ Len(mem[job[g].obj].arr) \in Nat /\ Len(mem'[job[g].obj].arr) \in Nat
        BY <4>2, LenProperties
      <4> QED
        BY <3>1, <3>3, <4>1, <4>3 DEF Working
    <3> QED
      BY <3>1, <3>2, <3>3 DEF Working
  <2> QED
    BY <2>1, <2>2
<1>5. Untouched'
  <2>1. ASSUME NEW g \in Handler, pc'[g] = "new"
        PROVE  dp' # g /\ mem'[g] = EmptyConfig /\ \A f \in Handler : job'[f].obj # g
    <3>1. dp # g /\ mem[g] = EmptyConfig /\ \A f \in Handler : job[f].obj # g
      BY <1>1, <1>2, <2>1 DEF Untouched
    <3>2. dp' # g
      BY <1>2, <2>1, <3>1
    <3> QED
      BY <1>1, <1>2, <3>1, <3>2
  <2>2. ASSUME dp' = None, NEW g \in Handler
        PROVE  mem'[g] = EmptyConfig /\ job'[g].obj = None
    <3>1. dp = None
      BY <1>1, <2>2
    <3> QED
      BY <1>1, <1>2, <3>1 DEF Untouched
  <2> QED
    BY <2>1, <2>2 DEF Untouched
<1> QED
  BY <1>3, <1>4, <1>5

(* The numbers left over, when no handler more is about to take one.       *)
LEMMA NumbersKept ==
  ASSUME IsFiniteSet(Handler), Shared, ifID' = ifID, Unnamed' \subseteq Unnamed
  PROVE  NumbersLeft'
<1>1. IsFiniteSet(Unnamed)
  BY FS_Subset DEF Unnamed
<1>2. Cardinality(Unnamed') <= Cardinality(Unnamed)
  BY <1>1, FS_Subset
<1>3. Cardinality(Unnamed') \in Nat /\ Cardinality(Unnamed) \in Nat
  BY <1>1, FS_Subset, FS_CardinalityType
<1> QED
  BY <1>2, <1>3, DataplaneAssumption DEF Shared, Shape, NumbersLeft, DataplaneAssumption

(* The types of what a handler works on.                                   *)
LEMMA SharedTypes ==
  ASSUME Shared
  PROVE  /\ None \notin Handler /\ MaxInterfaces \in Nat /\ ifID \in -1..MaxInterfaces
         /\ \A h \in Handler :
              /\ job[h] \in Job /\ job[h].msg \in Msg /\ job[h].n \in Nat /\ job[h].name \in Name
              /\ job[h].msg.routes \in SUBSET Conn /\ job[h].msg.nat \in Nat44
              /\ mem[h] \in Config /\ mem[h].arr \in Seq(Item) /\ mem[h].len \in Nat
              /\ mem[h].len <= Len(mem[h].arr) /\ Len(mem[h].arr) \in Nat
              /\ mem[h].routes \in SUBSET Conn /\ mem[h].nat \in Nat44
              /\ \A i \in 1..mem[h].len : mem[h].arr[i] \in Item
         /\ job \in [Handler -> Job] /\ mem \in [Handler -> Config] /\ pc \in [Handler -> Step]
         /\ vpp \in Vpp /\ client \in [Conn -> Outcome] /\ dp \in Handler \cup {None}
<1> USE DEF Shared, Shape
<1>1. None \notin Handler /\ MaxInterfaces \in Nat
  BY DataplaneAssumption DEF DataplaneAssumption
<1>2. ASSUME NEW h \in Handler
      PROVE  /\ job[h] \in Job /\ job[h].msg \in Msg /\ job[h].n \in Nat /\ job[h].name \in Name
             /\ job[h].msg.routes \in SUBSET Conn /\ job[h].msg.nat \in Nat44
             /\ mem[h] \in Config /\ mem[h].arr \in Seq(Item) /\ mem[h].len \in Nat
             /\ mem[h].len <= Len(mem[h].arr) /\ Len(mem[h].arr) \in Nat
             /\ mem[h].routes \in SUBSET Conn /\ mem[h].nat \in Nat44
             /\ \A i \in 1..mem[h].len : mem[h].arr[i] \in Item
  <2>1. job[h] \in Job /\ mem[h] \in Config /\ mem[h].len <= Len(mem[h].arr)
    OBVIOUS
  <2>2. mem[h].arr \in Seq(Item) /\ mem[h].len \in Nat
        /\ mem[h].routes \in SUBSET Conn /\ mem[h].nat \in Nat44
    BY <2>1 DEF Config
  <2>3. Len(mem[h].arr) \in Nat /\ \A i \in 1..mem[h].len : mem[h].arr[i] \in Item
    BY <2>1, <2>2, LenProperties, ElementOfSeq
  <2>4. job[h].msg \in Msg /\ job[h].n \in Nat /\ job[h].name \in Name
    BY <2>1 DEF Job
  <2>5. job[h].msg.routes \in SUBSET Conn /\ job[h].msg.nat \in Nat44
    BY <2>4 DEF Msg
  <2> QED
    BY <2>1, <2>2, <2>3, <2>4, <2>5
<1> QED
  BY <1>1, <1>2

(* A step that leaves the objects alone and begins nothing.                *)
LEMMA LeavesObjects ==
  ASSUME IsFiniteSet(Handler), Shared, NEW h \in Handler, NEW s \in Step \ {"new", "build"},
         NEW j \in Job, pc' = [pc EXCEPT ![h] = s], job' = [job EXCEPT ![h] = j],
         UNCHANGED <<dp, mem, ifID, restarts>>, vpp' \in Vpp, client' \in [Conn -> Outcome],
         j.obj \in {dp, job[h].obj, None},
         s # "idle" => j.conn \in Conn,
         s \in Requesting \cup {"cut"} => dp # None,
         s \in {"append", "route", "nat"} => j.obj # None,
         s = "append" => j.n <= Len(mem[j.obj].arr),
         s = "cut" => j.n # 0
  PROVE  Shared'
<1>1. Unnamed' \subseteq Unnamed
  BY DEF Unnamed, Shared, Shape
<1>2. NumbersLeft'
  BY <1>1, NumbersKept
<1>3. /\ mem' \in [Handler -> Config] /\ ifID' \in -1..MaxInterfaces
      /\ \A o \in Handler : /\ mem'[o].len <= Len(mem'[o].arr)
                            /\ Len(mem[o].arr) <= Len(mem'[o].arr)
                            /\ mem'[o] = mem[o]
  BY SharedTypes
<1>4. s # "new" /\ dp' = dp /\ mem' = mem /\ restarts' = restarts
  OBVIOUS
<1> QED
  BY <1>2, <1>3, <1>4, OneWorks

(* Some handler returns.                                                   *)
LEMMA OneReturns ==
  ASSUME IsFiniteSet(Handler), Shared, NEW h \in Handler, NEW o \in Outcome, Return(h, o),
         vpp' \in Vpp, UNCHANGED <<dp, mem, ifID, restarts>>
  PROVE  Shared'
<1>1. /\ pc' = [pc EXCEPT ![h] = "idle"] /\ job' = [job EXCEPT ![h] = NoJob]
      /\ client' \in [Conn -> Outcome]
  BY SharedTypes DEF Return, Goto
<1>2. NoJob \in Job /\ NoJob.obj = None
  BY ConfigTypes DEF NoJob
<1>3. "idle" \in Step \ {"new", "build"} /\ "idle" \notin Requesting \cup {"cut", "append", "route", "nat"}
  BY DEF Step, Requesting
<1> QED
  BY <1>1, <1>2, <1>3, LeavesObjects

(* A Request is refused before it begins.                                  *)
LEMMA RefusedShared ==
  ASSUME Shared, NEW c \in Conn, UNCHANGED restarts, ChainRefuses(c)
  PROVE  Shared'
<1>1. /\ client' = [client EXCEPT ![c] = "refused"]
      /\ UNCHANGED <<dp, mem, ifID, pc, job, vpp>>
  BY DEF ChainRefuses
<1>2. client' \in [Conn -> Outcome]
  <2>1. "refused" \in Outcome
    BY DEF Outcome
  <2> QED
    BY <1>1, <2>1, SharedTypes
<1>3. Shape' /\ Untouched' /\ \A h \in Handler : Working(h)'
  BY <1>1, <1>2 DEF Shared, Shape, Untouched, Working
<1>4. Unnamed' = Unnamed
  BY <1>1 DEF Unnamed
<1>5. NumbersLeft'
  BY <1>1, <1>4 DEF Shared, NumbersLeft
<1> QED
  BY <1>3, <1>5 DEF Shared

(* A Request begins; it has a number to take, if it will.                  *)
LEMMA RequestShared ==
  ASSUME IsFiniteSet(Handler), Shared, NEW h \in Handler, NEW c \in Conn, UNCHANGED restarts,
         Request(h, c)
  PROVE  Shared'
<1> DEFINE s == IF dp = None THEN "new" ELSE "build"
           j == [NoJob EXCEPT !.conn = c]
<1>1. /\ pc[h] = "idle"
      /\ LabelOf[c] = None => ifID + Cardinality(Handler) <= MaxInterfaces
      /\ job' = [job EXCEPT ![h] = j] /\ pc' = [pc EXCEPT ![h] = s]
      /\ client' = [client EXCEPT ![c] = "asked"]
      /\ UNCHANGED <<dp, mem, ifID, vpp>>
  BY DEF Request, Goto
<1>2. j \in Job /\ j.conn = c /\ j.obj = None
  BY ConfigTypes DEF NoJob, Job
<1>3. s \in Step /\ s \notin {"idle", "append", "route", "nat", "cut"}
      /\ (s = "new" => dp = None) /\ (s = "build" => dp # None)
      /\ (s \in Requesting => s = "build")
  BY DEF Step, Requesting
<1> HIDE DEF j, s
<1>4. NumbersLeft'
  <2>1. CASE LabelOf[c] = None
    <3>1. Unnamed' \subseteq Handler
      BY DEF Unnamed
    <3>2. /\ Cardinality(Unnamed') <= Cardinality(Handler)
          /\ Cardinality(Unnamed') \in Nat /\ Cardinality(Handler) \in Nat
      BY <3>1, FS_Subset, FS_CardinalityType
    <3> QED
      BY <1>1, <2>1, <3>2, SharedTypes DEF NumbersLeft
  <2>2. CASE LabelOf[c] # None
    <3>1. Unnamed' \subseteq Unnamed
      BY <1>1, <1>2, <2>2 DEF Unnamed, Shared, Shape
    <3> QED
      BY <1>1, <3>1, NumbersKept
  <2> QED
    BY <2>1, <2>2
<1>5. client' \in [Conn -> Outcome] /\ ifID' \in -1..MaxInterfaces /\ vpp' \in Vpp
      /\ mem' \in [Handler -> Config] /\ dp' = dp /\ restarts' = restarts
      /\ \A o \in Handler : /\ mem'[o].len <= Len(mem'[o].arr)
                            /\ Len(mem[o].arr) <= Len(mem'[o].arr)
                            /\ mem'[o] # mem[o] => o = dp \/ o = job[h].obj
  <2>1. "asked" \in Outcome
    BY DEF Outcome
  <2> QED
    BY <1>1, <2>1, SharedTypes
<1>6. /\ s = "new" => dp = None
      /\ s # "idle" => j.conn \in Conn
      /\ s \in Requesting \cup {"cut"} => dp' # None
      /\ s \in {"append", "route", "nat"} => j.obj # None
      /\ s = "append" => j.n <= Len(mem'[j.obj].arr)
      /\ s = "cut" => j.n # 0
      /\ j.obj \in {dp, job[h].obj, None}
      /\ (dp' = dp \/ (pc[h] = "new" /\ dp' = h /\ s = "build"))
  BY <1>2, <1>3, <1>5
<1>7. s \in Step /\ pc' = [pc EXCEPT ![h] = s] /\ job' = [job EXCEPT ![h] = j]
  BY <1>1, <1>3
<1> QED
  BY <1>2, <1>4, <1>5, <1>6, <1>7, OneWorks

(* It makes an object, also while another handler does: the later one      *)
(* replaces the earlier in dpConfig, and both objects stay what they are.  *)
LEMMA NewShared ==
  ASSUME IsFiniteSet(Handler), Shared, NEW h \in Handler, UNCHANGED restarts, NewDPConfig(h)
  PROVE  Shared'
<1>1. /\ pc[h] = "new" /\ dp' = h /\ pc' = [pc EXCEPT ![h] = "build"]
      /\ mem' = [mem EXCEPT ![h] = EmptyConfig]
      /\ UNCHANGED <<ifID, job, vpp, client>>
  BY DEF NewDPConfig, Goto
<1>2. mem[h] = EmptyConfig
  BY <1>1 DEF Shared, Untouched
<1>3. mem' = mem /\ job' = [job EXCEPT ![h] = job[h]]
  BY <1>1, <1>2, SharedTypes
<1>4. Unnamed' \subseteq Unnamed
  BY <1>1, SharedTypes DEF Unnamed
<1>5. NumbersLeft'
  BY <1>1, <1>4, NumbersKept
<1>6. /\ client' \in [Conn -> Outcome] /\ ifID' \in -1..MaxInterfaces /\ vpp' \in Vpp
      /\ mem' \in [Handler -> Config] /\ restarts' = restarts /\ job[h] \in Job
      /\ \A o \in Handler : /\ mem'[o].len <= Len(mem'[o].arr)
                            /\ Len(mem[o].arr) <= Len(mem'[o].arr)
                            /\ mem'[o] = mem[o]
  BY <1>1, <1>3, SharedTypes
<1>7. job[h].conn \in Conn /\ h # None
  BY <1>1, SharedTypes DEF Shared, Working
<1>8. "build" \in Step /\ "build" \notin {"new", "append", "route", "nat", "cut"}
  BY DEF Step
<1> QED
  BY <1>1, <1>3, <1>5, <1>6, <1>7, <1>8, OneWorks

(* It names its interface, and takes the length of the slice.              *)
LEMMA BuildShared ==
  ASSUME IsFiniteSet(Handler), Shared, NEW h \in Handler, UNCHANGED restarts, BuildVppIfName(h)
  PROVE  Shared'
<1> DEFINE c == job[h].conn
           j == [job[h] EXCEPT !.obj = dp, !.n = mem[dp].len,
                               !.name = IF LabelOf[c] = None THEN ifID + 1 ELSE LabelOf[c]]
<1>1. /\ pc[h] = "build"
      /\ ifID' = IF LabelOf[c] = None THEN ifID + 1 ELSE ifID
      /\ job' = [job EXCEPT ![h] = j]
      /\ pc' = [pc EXCEPT ![h] = "append"]
      /\ UNCHANGED <<dp, mem, vpp, client>>
  BY SharedTypes DEF BuildVppIfName, Goto, GetEndpointIfID
<1>2. c \in Conn /\ dp \in Handler
  BY <1>1, SharedTypes DEF Shared, Working, Requesting
<1>3. LabelOf[c] = None => NumbersLeft' /\ ifID + 1 \in 0..MaxInterfaces
  <2> SUFFICES ASSUME LabelOf[c] = None PROVE NumbersLeft' /\ ifID + 1 \in 0..MaxInterfaces
    OBVIOUS
  <2>1. h \in Unnamed /\ Unnamed' = Unnamed \ {h}
    BY <1>1, SharedTypes DEF Unnamed
  <2>2. IsFiniteSet(Unnamed)
    BY FS_Subset DEF Unnamed
  <2>3. Cardinality(Unnamed') = Cardinality(Unnamed) - 1
    BY <2>1, <2>2, FS_RemoveElement
  <2>4. Cardinality(Unnamed) \in Nat /\ Cardinality(Unnamed') \in Nat
    BY <2>1, <2>2, FS_CardinalityType, FS_RemoveElement
  <2> QED
    BY <1>1, <2>3, <2>4, SharedTypes DEF Shared, NumbersLeft
<1>4. NumbersLeft' /\ ifID' \in -1..MaxInterfaces
  <2>1. CASE LabelOf[c] = None
    BY <1>1, <1>3, <2>1, SharedTypes
  <2>2. CASE LabelOf[c] # None
    <3>1. Unnamed' \subseteq Unnamed
      BY <1>1, SharedTypes DEF Unnamed
    <3> QED
      BY <1>1, <2>2, <3>1, NumbersKept, SharedTypes
  <2> QED
    BY <2>1, <2>2
<1>5. (IF LabelOf[c] = None THEN ifID + 1 ELSE LabelOf[c]) \in Name
  BY <1>2, <1>3, DataplaneAssumption DEF DataplaneAssumption, Name
<1>6. j \in Job /\ j.conn = c /\ j.obj = dp /\ j.n = mem[dp].len
  BY <1>2, <1>5, SharedTypes DEF Job
<1>7. j.n <= Len(mem[j.obj].arr)
  BY <1>2, <1>6, SharedTypes
<1> HIDE DEF j
<1>8. /\ client' \in [Conn -> Outcome] /\ vpp' \in Vpp
      /\ mem' \in [Handler -> Config] /\ mem' = mem /\ dp' = dp /\ restarts' = restarts
      /\ \A o \in Handler : /\ mem'[o].len <= Len(mem'[o].arr)
                            /\ Len(mem[o].arr) <= Len(mem'[o].arr)
  BY <1>1, SharedTypes
<1>9. "append" \in Step /\ dp # None
  BY <1>2, SharedTypes DEF Step
<1> QED
  BY <1>1, <1>2, <1>4, <1>6, <1>7, <1>8, <1>9, OneWorks

(* What a handler makes of the object it works on, its array no shorter.   *)
LEMMA ChangesObject ==
  ASSUME IsFiniteSet(Handler), Shared, NEW h \in Handler, UNCHANGED restarts,
         NEW o \in Handler, o = job[h].obj \/ o = dp,
         NEW s \in {"route", "nat", "send", "sendcut"}, pc' = [pc EXCEPT ![h] = s],
         NEW m \in Config, m.len <= Len(m.arr), Len(mem[o].arr) <= Len(m.arr),
         mem' = [mem EXCEPT ![o] = m], dp # None,
         NEW j \in Job, job' = [job EXCEPT ![h] = j],
         j.conn = job[h].conn, j.conn \in Conn, j.obj = job[h].obj,
         s \in {"route", "nat"} => j.obj # None,
         UNCHANGED <<dp, ifID, vpp, client>>
  PROVE  Shared'
<1>1. Unnamed' \subseteq Unnamed
  BY SharedTypes DEF Unnamed
<1>2. NumbersLeft'
  BY <1>1, NumbersKept
<1>3. mem'[o] = m /\ \A p \in Handler : p # o => mem'[p] = mem[p]
  BY SharedTypes
<1>4. /\ client' \in [Conn -> Outcome] /\ vpp' \in Vpp /\ ifID' \in -1..MaxInterfaces
      /\ mem' \in [Handler -> Config] /\ dp' = dp /\ restarts' = restarts
      /\ \A p \in Handler : /\ mem'[p].len <= Len(mem'[p].arr)
                            /\ Len(mem[p].arr) <= Len(mem'[p].arr)
                            /\ mem'[p] # mem[p] => p = dp \/ p = job[h].obj
  BY <1>3, SharedTypes
<1>5. s \in Step /\ s \notin {"new", "append", "cut"} /\ dp' # None
  BY DEF Step
<1> QED
  BY <1>2, <1>4, <1>5, OneWorks

(* It stores its interface at the length it read, whatever was stored      *)
(* there meanwhile, and sets the length to one more.                       *)
LEMMA AppendShared ==
  ASSUME IsFiniteSet(Handler), Shared, NEW h \in Handler, UNCHANGED restarts, AppendInterface(h)
  PROVE  Shared'
<1> DEFINE o == job[h].obj
           n == job[h].n + 1
           e == [conn |-> job[h].conn, name |-> job[h].name]
           a == Put(mem[o].arr, n, e)
           m == [mem[o] EXCEPT !.arr = a, !.len = n]
<1>1. /\ pc[h] = "append" /\ mem' = [mem EXCEPT ![o] = m]
      /\ pc' = [pc EXCEPT ![h] = "route"] /\ UNCHANGED <<dp, ifID, job, vpp, client>>
  BY SharedTypes DEF AppendInterface, Goto
<1>2. o \in Handler /\ job[h].conn \in Conn /\ job[h].n <= Len(mem[o].arr) /\ dp # None
  BY <1>1, SharedTypes DEF Shared, Working, Job, Requesting
<1>3. /\ mem[o] \in Config /\ mem[o].arr \in Seq(Item) /\ Len(mem[o].arr) \in Nat
      /\ job[h].n \in Nat /\ job[h].name \in Name
  BY <1>2, SharedTypes
<1>4. e \in Item /\ n \in 1..(Len(mem[o].arr) + 1) /\ n \in Nat
  BY <1>2, <1>3 DEF Item
<1>5. a \in Seq(Item) /\ n <= Len(a) /\ Len(mem[o].arr) <= Len(a)
  <2> HIDE DEF e, n
  <2>1. a \in Seq(Item) /\ n <= Len(a)
    BY <1>3, <1>4, PutInto
  <2>2. CASE n > Len(mem[o].arr)
    BY <1>3, <1>4, <2>1, <2>2, LenProperties
  <2>3. CASE ~(n > Len(mem[o].arr))
    <3>1. a = [mem[o].arr EXCEPT ![n] = e] /\ n \in 1..Len(mem[o].arr)
      BY <1>3, <1>4, <2>3 DEF Put
    <3> QED
      BY <1>3, <1>4, <2>1, <3>1, ExceptSeq
  <2> QED
    BY <2>1, <2>2, <2>3
<1> HIDE DEF a
<1>6. m \in Config /\ m.arr = a /\ m.len = n
  BY <1>3, <1>4, <1>5 DEF Config
<1> HIDE DEF m
<1>7. job' = [job EXCEPT ![h] = job[h]] /\ job[h] \in Job /\ o # None
      /\ "route" \in {"route", "nat", "send", "sendcut"} /\ m.len <= Len(m.arr)
      /\ Len(mem[o].arr) <= Len(m.arr)
  BY <1>1, <1>2, <1>5, <1>6, SharedTypes
<1>8. o = job[h].obj \/ o = dp
  OBVIOUS
<1> QED
  <2> DEFINE k == job[h]
  <2>1. k \in Job /\ job' = [job EXCEPT ![h] = k] /\ k.conn = job[h].conn /\ k.obj = job[h].obj
        /\ k.conn \in Conn /\ k.obj # None
    BY <1>2, <1>7
  <2> HIDE DEF k, o
  <2> QED
    BY <1>1, <1>2, <1>6, <1>7, <1>8, <2>1, ChangesObject

(* It adds its route, and then its NAT entries.                            *)
LEMMA RouteShared ==
  ASSUME IsFiniteSet(Handler), Shared, NEW h \in Handler, UNCHANGED restarts,
         AppendRoutes(h) \/ ConfigureNat(h)
  PROVE  Shared'
<1> DEFINE o == job[h].obj
<1>1. /\ pc[h] \in {"route", "nat"} /\ UNCHANGED <<dp, ifID, job, vpp, client>>
  BY DEF AppendRoutes, ConfigureNat, Natted
<1>2. o \in Handler /\ job[h].conn \in Conn /\ dp # None /\ Forwarded \subseteq Conn
  BY <1>1, SharedTypes, DataplaneAssumption
     DEF Shared, Working, Job, Requesting, DataplaneAssumption
<1>3. /\ mem[o] \in Config /\ mem[o].nat \in Nat44 /\ job[h].name \in Name
      /\ job' = [job EXCEPT ![h] = job[h]] /\ job[h] \in Job /\ o # None
  BY <1>1, <1>2, SharedTypes
<1>4. ASSUME NEW m \in Config, m.arr = mem[o].arr, m.len = mem[o].len,
             mem' = [mem EXCEPT ![o] = m],
             NEW s \in {"nat", "send"}, pc' = [pc EXCEPT ![h] = s]
      PROVE  Shared'
  <2>1. m.len <= Len(m.arr) /\ Len(mem[o].arr) <= Len(m.arr)
    BY <1>2, <1>4, SharedTypes
  <2> QED
    BY <1>1, <1>2, <1>3, <1>4, <2>1, ChangesObject
<1>5. CASE AppendRoutes(h)
  <2> DEFINE m == [mem[o] EXCEPT !.routes = @ \cup {job[h].conn}]
             s == IF NatIP THEN "nat" ELSE "send"
  <2>1. mem' = [mem EXCEPT ![o] = m] /\ pc' = [pc EXCEPT ![h] = s]
    BY <1>2, <1>5, SharedTypes DEF AppendRoutes, Goto
  <2>2. m \in Config /\ m.arr = mem[o].arr /\ m.len = mem[o].len /\ s \in {"nat", "send"}
    BY <1>2, <1>3 DEF Config
  <2> HIDE DEF m, s
  <2> QED
    BY <1>4, <2>1, <2>2
<1>6. CASE ConfigureNat(h)
  <2> DEFINE first == ifID \in {-1, 0}
             nat == mem[o].nat
             e == [pool |-> nat.pool \/ first, ifs |-> nat.ifs \cup {job[h].name},
                   dnat |-> nat.dnat \cup ({job[h].conn} \cap Forwarded)]
             m == [mem[o] EXCEPT !.nat = e]
  <2>1. mem' = [mem EXCEPT ![o] = m] /\ pc' = [pc EXCEPT ![h] = "send"]
    BY <1>2, <1>6, SharedTypes DEF ConfigureNat, Natted, Goto
  <2>2. e \in Nat44
    BY <1>2, <1>3 DEF Nat44
  <2> HIDE DEF e
  <2>3. m \in Config /\ m.arr = mem[o].arr /\ m.len = mem[o].len
    BY <1>3, <2>2 DEF Config
  <2> HIDE DEF m
  <2> QED
    BY <1>4, <2>1, <2>3
<1> QED
  BY <1>5, <1>6

(* What is sent is what dpConfig holds, and the agent's answer ends the    *)
(* call.                                                                   *)
LEMMA SendShared ==
  ASSUME IsFiniteSet(Handler), Shared, NEW h \in Handler, UNCHANGED restarts,
         MkdirFails(h) \/ ProcessDPConfig(h)
  PROVE  Shared'
<1>1. /\ job[h] \in Job /\ job[h].msg \in Msg /\ job[h].msg.routes \in SUBSET Conn
      /\ job[h].msg.nat \in Nat44 /\ vpp \in Vpp /\ NoNat \in Nat44
      /\ client \in [Conn -> Outcome]
  BY SharedTypes, ConfigTypes
<1>2. ASSUME NEW S \in SUBSET Names(job[h].msg), NEW R \in SUBSET job[h].msg.routes,
             NEW nat \in {NoNat, job[h].msg.nat}
      PROVE  Programmed(job[h].msg, S, R, nat) \in Vpp /\ Removed(S, R, nat) \in Vpp
  BY <1>1, AgentTypes
<1>3. CASE MkdirFails(h) \/ PortUnavailable(h) \/ Update(h) \/ Undo(h) \/ Delete(h) \/ DeleteFails(h)
  <2>1. vpp' \in Vpp
    BY <1>1, <1>2, <1>3 DEF MkdirFails, PortUnavailable, Update, Undo, Delete, DeleteFails
  <2>2. UNCHANGED <<dp, mem, ifID, restarts>>
    BY <1>3 DEF MkdirFails, PortUnavailable, Update, Undo, Delete, DeleteFails
  <2>3. \E o \in Outcome : Return(h, o)
    BY <1>3, Zenon DEF MkdirFails, PortUnavailable, Update, Undo, Delete, DeleteFails, Outcome
  <2> QED
    BY <2>1, <2>2, <2>3, OneReturns
<1>4. CASE Send(h)
  <2> DEFINE msg == [ifs |-> Interfaces(dp), routes |-> mem[dp].routes, nat |-> mem[dp].nat]
             j == [job[h] EXCEPT !.msg = msg]
  <2>1. /\ pc[h] = "send" /\ job' = [job EXCEPT ![h] = j]
        /\ pc' = [pc EXCEPT ![h] = "update"]
        /\ UNCHANGED <<dp, mem, ifID, vpp, client>>
    BY <1>4, SharedTypes DEF Send, Goto
  <2>2. dp \in Handler /\ dp # None /\ job[h].conn \in Conn
    BY <2>1, SharedTypes DEF Shared, Working, Requesting
  <2>3. /\ mem[dp].arr \in Seq(Item) /\ mem[dp].len \in Nat
        /\ \A i \in 1..mem[dp].len : mem[dp].arr[i] \in Item
        /\ mem[dp].routes \in SUBSET Conn /\ mem[dp].nat \in Nat44
    BY <2>2, SharedTypes
  <2>4. Interfaces(dp) \in Seq(Item)
    BY <2>3, SubSeqProperties DEF Interfaces
  <2>5. msg \in Msg
    BY <2>3, <2>4 DEF Msg
  <2> HIDE DEF msg
  <2>6. j \in Job /\ j.conn = job[h].conn /\ j.obj = job[h].obj
    BY <1>1, <2>5 DEF Job
  <2> HIDE DEF j
  <2>7. /\ "update" \in Step \ {"new", "build"}
        /\ "update" \notin {"append", "route", "nat", "cut"}
    BY DEF Step
  <2>8. vpp' \in Vpp /\ client' \in [Conn -> Outcome]
    BY <1>1, <2>1
  <2> QED
    BY <2>1, <2>2, <2>6, <2>7, <2>8, LeavesObjects
<1>5. CASE SendCut(h) \/ UpdateFails(h)
  <2>1. vpp' \in Vpp /\ UNCHANGED <<dp, mem, ifID, job, client>>
    BY <1>1, <1>2, <1>5 DEF SendCut, UpdateFails
  <2>2. PICK s \in {"delete", "undo"} :
          /\ pc' = [pc EXCEPT ![h] = s]
          /\ pc[h] = "sendcut" \/ pc[h] = "update"
          /\ s = "undo" => pc[h] = "update"
    BY <1>5 DEF SendCut, UpdateFails, Goto
  <2>3. job' = [job EXCEPT ![h] = job[h]] /\ client' \in [Conn -> Outcome]
        /\ job[h].conn \in Conn /\ (pc[h] = "update" => dp # None)
    BY <1>1, <2>1, <2>2, SharedTypes DEF Shared, Working, Requesting
  <2>4. /\ s \in Step \ {"new", "build"} /\ s \notin {"append", "route", "nat", "cut"}
        /\ s \in Requesting \cup {"cut"} => dp # None
    BY <2>2, <2>3 DEF Step, Requesting
  <2> QED
    BY <1>1, <2>1, <2>2, <2>3, <2>4, LeavesObjects
<1> QED
  BY <1>3, <1>4, <1>5 DEF ProcessDPConfig

(* A Close begins, on the object dpConfig points to, if there is one, and  *)
(* looks for the first interface of its connection.                        *)
LEMMA FindShared ==
  ASSUME IsFiniteSet(Handler), Shared, NEW h \in Handler, UNCHANGED restarts,
         (\E c \in Conn : Close(h, c)) \/ FindInterface(h) \/ FindPanics(h)
  PROVE  Shared'
<1>1. ASSUME NEW c \in Conn, Close(h, c) PROVE Shared'
  <2> DEFINE j == [NoJob EXCEPT !.conn = c, !.obj = dp]
  <2>1. /\ job' = [job EXCEPT ![h] = j]
        /\ client' = [client EXCEPT ![c] = "closing"]
        /\ pc' = [pc EXCEPT ![h] = "find"]
        /\ UNCHANGED <<dp, mem, ifID, vpp>>
    BY <1>1 DEF Close, Goto
  <2>2. j \in Job /\ j.conn = c /\ j.obj = dp
    BY SharedTypes, ConfigTypes DEF NoJob, Job
  <2> HIDE DEF j
  <2>3. "closing" \in Outcome
    BY DEF Outcome
  <2>4. client' \in [Conn -> Outcome] /\ vpp' \in Vpp
    BY <2>1, <2>3, SharedTypes
  <2>5. /\ "find" \in Step \ {"new", "build"}
        /\ "find" \notin Requesting \cup {"append", "route", "nat", "cut"}
    BY DEF Step, Requesting
  <2> QED
    BY <2>1, <2>2, <2>4, <2>5, LeavesObjects
<1>2. CASE FindInterface(h)
  <2> DEFINE found == {i \in 1..mem[dp].len : mem[dp].arr[i].conn = job[h].conn}
             n == IF found = {} THEN 0 ELSE Min(found)
             s == IF found = {} THEN "sendcut" ELSE "cut"
             j == [job[h] EXCEPT !.n = n]
  <2>1. /\ pc[h] = "find" /\ dp # None
        /\ job' = [job EXCEPT ![h] = j] /\ pc' = [pc EXCEPT ![h] = s]
        /\ UNCHANGED <<dp, mem, ifID, vpp, client>>
    BY <1>2, SharedTypes DEF FindInterface, Goto
  <2>2. mem[dp].len \in Nat /\ job[h] \in Job /\ job[h].conn \in Conn
    BY <2>1, SharedTypes DEF Shared, Working
  <2>3. found \in SUBSET Nat /\ 0 \notin found
    BY <2>2
  <2>4. n \in Nat /\ (found # {} => n \in found)
    <3> HIDE DEF found
    <3> QED
      BY <2>3, MinOf
  <2>5. s = "cut" => n # 0
    <3> HIDE DEF found
    <3> QED
      BY <2>3, <2>4
  <2>6. s \in {"cut", "sendcut"}
    OBVIOUS
  <2> HIDE DEF n, s, found
  <2>7. j \in Job /\ j.conn = job[h].conn /\ j.n = n /\ j.obj = job[h].obj
    BY <2>2, <2>4 DEF Job
  <2> HIDE DEF j
  <2>8. s \in Step \ {"new", "build"} /\ s \notin {"append", "route", "nat"}
    BY <2>6 DEF Step
  <2>9. vpp' \in Vpp /\ client' \in [Conn -> Outcome]
    BY <2>1, SharedTypes
  <2> QED
    BY <2>1, <2>2, <2>5, <2>7, <2>8, <2>9, LeavesObjects
<1>3. CASE FindPanics(h)
  <2>1. /\ pc[h] = "find" /\ pc' = [pc EXCEPT ![h] = "panic"]
        /\ UNCHANGED <<dp, mem, ifID, job, vpp, client>>
    BY <1>3 DEF FindPanics, Goto
  <2>2. /\ job' = [job EXCEPT ![h] = job[h]] /\ job[h] \in Job /\ job[h].conn \in Conn
        /\ vpp' \in Vpp /\ client' \in [Conn -> Outcome]
    BY <2>1, SharedTypes DEF Shared, Working
  <2>3. /\ "panic" \in Step \ {"new", "build"}
        /\ "panic" \notin Requesting \cup {"append", "route", "nat", "cut"}
    BY DEF Step, Requesting
  <2> QED
    BY <2>1, <2>2, <2>3, LeavesObjects
<1> QED
  BY <1>1, <1>2, <1>3

(* It cuts at the index it found, if the slice still reaches that far; the *)
(* array keeps its length, so the others that append are not affected.     *)
LEMMA CutShared ==
  ASSUME IsFiniteSet(Handler), Shared, NEW h \in Handler, UNCHANGED restarts, RemoveInterface(h)
  PROVE  Shared'
<1> DEFINE i == job[h].n
           l == mem[dp].len
           a == mem[dp].arr
           c == job[h].conn
<1>1. /\ pc[h] = "cut" /\ UNCHANGED <<dp, ifID, vpp, client>>
  BY DEF RemoveInterface, Cut
<1>2. c \in Conn /\ dp \in Handler /\ dp # None /\ i # 0
  BY <1>1, SharedTypes DEF Shared, Working
<1>3. /\ job[h] \in Job /\ i \in Nat /\ l \in Nat /\ a \in Seq(Item) /\ Len(a) \in Nat
      /\ l <= Len(a) /\ mem[dp].routes \in SUBSET Conn /\ mem[dp].nat \in Nat44
  BY <1>2, SharedTypes
<1>4. CASE i > l
  <2>1. /\ pc' = [pc EXCEPT ![h] = "panic"] /\ UNCHANGED <<mem, job>>
    BY <1>4 DEF RemoveInterface, Cut, Goto
  <2>2. /\ job' = [job EXCEPT ![h] = job[h]]
        /\ vpp' \in Vpp /\ client' \in [Conn -> Outcome]
    BY <1>1, <2>1, SharedTypes
  <2>3. /\ "panic" \in Step \ {"new", "build"}
        /\ "panic" \notin Requesting \cup {"append", "route", "nat", "cut"}
    BY DEF Step, Requesting
  <2> QED
    BY <1>1, <1>2, <1>3, <2>1, <2>2, <2>3, LeavesObjects
<1>5. CASE ~(i > l)
  <2> DEFINE b == CutArray(dp, i)
             m == [arr |-> b, len |-> l - 1,
                   routes |-> mem[dp].routes \ {c}, nat |-> mem[dp].nat]
             msg == [ifs |-> <<a[i]>>, routes |-> mem[dp].routes \cap {c}, nat |-> NoNat]
             j == [job[h] EXCEPT !.msg = msg]
  <2>1. /\ mem' = [mem EXCEPT ![dp] = m] /\ job' = [job EXCEPT ![h] = j]
        /\ pc' = [pc EXCEPT ![h] = "sendcut"]
    BY <1>2, <1>5, SharedTypes DEF RemoveInterface, Cut, Goto
  <2>2. b \in Seq(Item) /\ Len(b) = Len(a)
    BY <1>3, CutOut
  <2> HIDE DEF b
  <2>3. i \in 1..Len(a) /\ l - 1 \in Nat /\ l - 1 <= Len(b)
    BY <1>2, <1>3, <1>5, <2>2
  <2>4. m \in Config /\ m.arr = b /\ m.len = l - 1
    BY <1>3, <2>2, <2>3 DEF Config
  <2>5. a[i] \in Item
    BY <1>3, <2>3, ElementOfSeq
  <2>6. msg \in Msg
    BY <1>3, <2>5, ConfigTypes DEF Msg
  <2> HIDE DEF msg, m
  <2>7. j \in Job /\ j.conn = c /\ j.obj = job[h].obj
    BY <1>3, <2>6 DEF Job
  <2> HIDE DEF j
  <2>8. /\ m.len <= Len(m.arr) /\ Len(a) <= Len(m.arr)
        /\ "sendcut" \in {"route", "nat", "send", "sendcut"}
        /\ "sendcut" \notin {"route", "nat"}
    BY <1>3, <2>2, <2>3, <2>4
  <2> QED
    BY <1>1, <1>2, <2>1, <2>4, <2>7, <2>8, ChangesObject
<1> QED
  BY <1>4, <1>5

(* A restart leaves nothing to share.                                      *)
LEMMA RestartShared ==
  ASSUME IsFiniteSet(Handler), Shared, Restart
  PROVE  Shared'
<1>1. /\ dp' = None /\ ifID' = -1 /\ mem' = [o \in Handler |-> EmptyConfig]
      /\ pc' = [o \in Handler |-> "idle"] /\ job' = [o \in Handler |-> NoJob]
      /\ restarts' \in 0..MaxRestarts
  BY DataplaneAssumption DEF Restart, Shared, Shape, DataplaneAssumption
<1>2. vpp' \in Vpp
  BY SharedTypes, ConfigTypes DEF Restart, ResetVppAgent
<1>3. client' \in [Conn -> Outcome]
  <2>1. "lost" \in Outcome
    BY DEF Outcome
  <2>2. client' = [c \in Conn |-> IF client[c] \in {"new", "refused", "closed"}
                                 THEN client[c] ELSE "lost"]
    BY DEF Restart
  <2> QED
    BY <2>1, <2>2, SharedTypes
<1>4. Shape'
  BY <1>1, <1>2, <1>3, SharedTypes, ConfigTypes DEF Shape, Step
<1>5. \A h \in Handler : Working(h)'
  BY <1>1 DEF Working, Requesting
<1>6. Untouched'
  BY <1>1 DEF Untouched, NoJob
<1>7. NumbersLeft'
  <2>1. Unnamed' = {}
    BY <1>1 DEF Unnamed
  <2> QED
    BY <1>1, <2>1, FS_EmptySet, SharedTypes DEF NumbersLeft
<1> QED
  BY <1>4, <1>5, <1>6, <1>7 DEF Shared

(* Every step, of any handler.                                             *)
LEMMA SharedStep ==
  ASSUME IsFiniteSet(Handler), Shared, [Next]_vars
  PROVE  Shared'
<1>1. ASSUME NEW h \in Handler, NEW c \in Conn, UNCHANGED restarts, Request(h, c)
      PROVE  Shared'
  BY <1>1, RequestShared
<1>0. ASSUME NEW c \in Conn, UNCHANGED restarts, ChainRefuses(c) PROVE Shared'
  BY <1>0, RefusedShared
<1>2. ASSUME NEW h \in Handler, UNCHANGED restarts, NewDPConfig(h) \/ ProcessEndpoint(h)
      PROVE  Shared'
  BY <1>2, NewShared, BuildShared, AppendShared, RouteShared, SendShared DEF ProcessEndpoint
<1>3. ASSUME NEW h \in Handler, UNCHANGED restarts, ProcessDPConfig(h) PROVE Shared'
  BY <1>3, SendShared
<1>4. ASSUME NEW h \in Handler, NEW c \in Conn, UNCHANGED restarts, Close(h, c)
      PROVE  Shared'
  BY <1>4, FindShared
<1>5. ASSUME NEW h \in Handler, UNCHANGED restarts,
             FindInterface(h) \/ FindPanics(h) \/ RemoveInterface(h)
      PROVE  Shared'
  BY <1>5, FindShared, CutShared
<1>6. CASE Restart
  BY <1>6, RestartShared
<1>7. CASE UNCHANGED vars
  <2>1. /\ UNCHANGED <<dp, mem, ifID, pc>>
        /\ UNCHANGED <<job, vpp, client, restarts>>
    BY <1>7 DEF vars
  <2>2. Shape' /\ Untouched' /\ \A h \in Handler : Working(h)'
    BY <2>1 DEF Shared, Shape, Untouched, Working
  <2>3. Unnamed' = Unnamed
    BY <2>1 DEF Unnamed
  <2>4. NumbersLeft'
    BY <2>1, <2>3 DEF Shared, NumbersLeft
  <2> QED
    BY <2>2, <2>4 DEF Shared
<1> QED
  BY <1>0, <1>1, <1>2, <1>3, <1>4, <1>5, <1>6, <1>7 DEF Next, Call

(* The first state, in which nobody is named.                              *)
LEMMA SharedInit ==
  ASSUME Init
  PROVE  Shared
<1>1. MaxRestarts \in Nat /\ MaxInterfaces \in Nat
  BY DataplaneAssumption DEF DataplaneAssumption
<1>2. Shape
  BY <1>1, ConfigTypes DEF Init, Shape, Step, Outcome
<1>3. \A h \in Handler : Working(h)
  BY DEF Init, Working, Requesting
<1>4. Untouched
  BY DEF Init, Untouched, NoJob
<1>5. NumbersLeft
  <2>1. Unnamed = {}
    BY DEF Init, Unnamed
  <2> QED
    BY <1>1, <2>1, FS_EmptySet DEF Init, NumbersLeft
<1> QED
  BY <1>2, <1>3, <1>4, <1>5 DEF Shared

-----------------------------------------------------------------------------
(* With any handlers, in any interleaving, whatever fails and whenever the *)
(* process is started again.                                               *)
THEOREM SharedInvariant ==
  ASSUME IsFiniteSet(Handler)
  PROVE  Spec => []Shared
<1>1. Init => Shared
  BY SharedInit
<1>2. Shared /\ [Next]_vars => Shared'
  BY SharedStep
<1> QED
  BY <1>1, <1>2, PTL DEF Spec

(* Every variable keeps its type however calls overlap: the length of the  *)
(* slice stays within its array, although handlers write both from what    *)
(* they read before, and the numbers stay within their bound.              *)
THEOREM TypeCorrect ==
  ASSUME IsFiniteSet(Handler)
  PROVE  Spec => []TypeOK
<1>1. Shared => TypeOK
  <2> SUFFICES ASSUME Shared PROVE TypeOK
    OBVIOUS
  <2>1. \A o \in Handler : /\ mem[o].arr \in Seq(Item)
                           /\ mem[o].len \in 0..Len(mem[o].arr)
                           /\ mem[o].routes \subseteq Conn
                           /\ mem[o].nat \in Nat44
    BY SharedTypes
  <2>2. \A o \in Handler : /\ job[o].conn \in Conn \cup {None}
                           /\ job[o].msg.ifs \in Seq(Item)
                           /\ job[o].msg.routes \subseteq Conn
                           /\ job[o].msg.nat \in Nat44
    BY DEF Shared, Shape, Job, Msg
  <2>3. /\ vpp.ifs \in [Name -> Conn \cup {None}] /\ vpp.routes \subseteq Conn
        /\ vpp.nat \in Nat44
    BY DEF Shared, Shape, Vpp
  <2> QED
    BY <2>1, <2>2, <2>3 DEF Shared, Shape, TypeOK, Step, Outcome
<1> QED
  BY <1>1, SharedInvariant, PTL
=============================================================================
