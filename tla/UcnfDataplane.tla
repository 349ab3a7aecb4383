--------------------------- MODULE UcnfDataplane ---------------------------
(***************************************************************************)
(* How an endpoint turns connections into VPP configuration: the Universal *)
(* CNF composite (pkg/universal-cnf/config/composite.go), the last element *)
(* of the endpoint's chain, and the VPP agent backend it calls             *)
(* (pkg/universal-cnf/vppagent/backend.go and operations.go).              *)
(*                                                                         *)
(* The composite keeps ONE configuration of all its clients, dpConfig.  A  *)
(* Request appends the interface and the route of its connection and sends *)
(* the whole configuration to the agent; a Close takes the interface out   *)
(* and sends what it took out for deletion.  gRPC runs every call in a     *)
(* goroutine of its own (a handler), and nothing serialises them.          *)
(*                                                                         *)
(* dpConfig is reached through a pointer, and its interfaces through a Go  *)
(* slice: the handlers share the object and the slice's array, and each    *)
(* statement that reads the length and writes it back is two steps.  The   *)
(* statement of Close that cuts the slice is kept in one step, and so are  *)
(* the accesses of GetEndpointIfID to its map.                             *)
(*                                                                         *)
(* The process may be killed and started again at any point; the agent and *)
(* NSM outlive it, and a new process begins by resetting the agent.        *)
(*                                                                         *)
(* External: NSM (which connections are requested and closed, one call per *)
(* connection at a time) and the VPP agent (a map from interface names).   *)
(***************************************************************************)
EXTENDS Integers, Sequences, FiniteSetsExt

CONSTANTS
  Conn,          \* connections
  None,          \* no connection, no label, a nil pointer
  LabelOf,       \* LabelOf[c]: the pod or peer name labelled on c, or None
  Handler,       \* handlers that run at a time; one creates an object at most
  NatIP,         \* NSE_NAT_IP is set
  Forwarded,     \* connections with a label that asks for a forwarded port
  Faults,        \* what may fail: "chain", "mkdir", "port", "update",
                 \* "delete", "reset"
  MayReRequest,  \* a connection that is open or was refused is asked for again
  MaxInterfaces, \* bound on the interfaces in an object and on EndpointIfID
  MaxRestarts    \* bound on the restarts of the process

Label == {LabelOf[c] : c \in Conn} \ {None}
Name == Label \cup 0..MaxInterfaces

ASSUME DataplaneAssumption ==
  /\ None \notin Conn \cup Handler
  /\ LabelOf \in [Conn -> Label \cup {None}]
  /\ NatIP \in BOOLEAN /\ Forwarded \subseteq Conn
  /\ Faults \subseteq {"chain", "mkdir", "port", "update", "delete", "reset"}
  /\ MayReRequest \in BOOLEAN
  /\ MaxInterfaces \in Nat \ {0} /\ MaxRestarts \in Nat

VARIABLES
  dp,      \* uce.dpConfig: None, or the handler that created the object
  mem,     \* mem[o]: object o, the array and length of Interfaces, Routes, NAT
  ifID,    \* EndpointIfID of the service, -1 when the map has no such key
  pc,      \* pc[h]: where handler h is
  job,     \* job[h]: what handler h holds in local variables
  vpp,     \* what the agent has: interfaces by name, routes, NAT
  client,  \* client[c]: what NSM was told of connection c
  restarts \* how often the process was started again

vars == <<dp, mem, ifID, pc, job, vpp, client, restarts>>

Item == [conn : Conn, name : Name]

(* Nat44Pools (all have the one address), Nat44Interfaces and Dnat44S, the *)
(* forwarded ports by their client: lists in which repetitions are idle.   *)
Nat44 == [pool : BOOLEAN, ifs : SUBSET Name, dnat : SUBSET Conn]
NoNat == [pool |-> FALSE, ifs |-> {}, dnat |-> {}]

EmptyConfig == [arr |-> <<>>, len |-> 0, routes |-> {}, nat |-> NoNat]
EmptyMsg == [ifs |-> <<>>, routes |-> {}, nat |-> NoNat]
EmptyVpp == [ifs |-> [m \in Name |-> None], routes |-> {}, nat |-> NoNat]
NoJob == [conn |-> None, obj |-> None, n |-> 0, name |-> 0, msg |-> EmptyMsg]

TypeOK ==
  /\ dp \in Handler \cup {None}
  /\ \A o \in Handler : /\ mem[o].arr \in Seq(Item)
                        /\ mem[o].len \in 0..Len(mem[o].arr)
                        /\ mem[o].routes \subseteq Conn
                        /\ mem[o].nat \in Nat44
  /\ ifID \in -1..MaxInterfaces
  /\ pc \in [Handler -> {"idle", "new", "build", "append", "route", "nat",
                         "send", "update", "undo", "find", "cut", "sendcut", "delete",
                         "panic"}]
  /\ \A h \in Handler : /\ job[h].conn \in Conn \cup {None}
                        /\ job[h].msg.ifs \in Seq(Item)
                        /\ job[h].msg.routes \subseteq Conn
                        /\ job[h].msg.nat \in Nat44
  /\ vpp.ifs \in [Name -> Conn \cup {None}] /\ vpp.routes \subseteq Conn
  /\ vpp.nat \in Nat44
  /\ client \in [Conn -> {"new", "asked", "open", "refused", "closing",
                          "closed", "close failed", "lost"}]
  /\ restarts \in 0..MaxRestarts

Init ==
  /\ dp = None
  /\ mem = [o \in Handler |-> EmptyConfig]
  /\ ifID = -1
  /\ pc = [h \in Handler |-> "idle"]
  /\ job = [h \in Handler |-> NoJob]
  /\ vpp = EmptyVpp
  /\ client = [c \in Conn |-> "new"]
  /\ restarts = 0

Interfaces(o) == SubSeq(mem[o].arr, 1, mem[o].len)

Put(s, i, e) == IF i > Len(s) THEN Append(s, e) ELSE [s EXCEPT ![i] = e]

Goto(h, step) == pc' = [pc EXCEPT ![h] = step]

(* The handler returns, and NSM learns the outcome.                        *)
Return(h, outcome) ==
  /\ Goto(h, "idle")
  /\ client' = [client EXCEPT ![job[h].conn] = outcome]
  /\ job' = [job EXCEPT ![h] = NoJob]

-----------------------------------------------------------------------------
(* Request.                                                                *)

Requestable == {"new", "closed", "lost"} \cup
               (IF MayReRequest THEN {"open", "refused"} ELSE {})

(* An element of the chain before the composite refuses the request: its   *)
(* Request is never called, but its Close will be.                         *)
ChainRefuses(c) ==
  /\ "chain" \in Faults
  /\ client[c] \in Requestable
  /\ client' = [client EXCEPT ![c] = "refused"]
  /\ UNCHANGED <<dp, mem, ifID, pc, job, vpp>>

(* The composite is called, and looks whether there is a configuration.    *)
Request(h, c) ==
  /\ pc[h] = "idle"
  /\ client[c] \in Requestable
  /\ dp # None => mem[dp].len < MaxInterfaces
  /\ LabelOf[c] = None => ifID + Cardinality(Handler) <= MaxInterfaces
  /\ job' = [job EXCEPT ![h] = [NoJob EXCEPT !.conn = c]]
  /\ client' = [client EXCEPT ![c] = "asked"]
  /\ Goto(h, IF dp = None THEN "new" ELSE "build")
  /\ UNCHANGED <<dp, mem, ifID, vpp>>

NewDPConfig(h) ==
  /\ pc[h] = "new"
  /\ dp' = h
  /\ mem' = [mem EXCEPT ![h] = EmptyConfig]
  /\ Goto(h, "build")
  /\ UNCHANGED <<ifID, job, vpp, client>>

(* Mutant: the same identifier for everyone.                               *)
GetEndpointIfIDConstant(id) == 0

(* GetEndpointIfID: 0 the first time, then one more than the last.         *)
GetEndpointIfID(id) == id + 1

(* ProcessEndpoint begins, on the object dpConfig points to now: the name  *)
(* is the label's, or a new one, and append reads the length.              *)
BuildVppIfName(h) ==
  LET c == job[h].conn
      id == GetEndpointIfID(ifID)
  IN
  /\ pc[h] = "build"
  /\ ifID' = IF LabelOf[c] = None THEN id ELSE ifID
  /\ job' = [job EXCEPT ![h].obj = dp, ![h].n = mem[dp].len,
               ![h].name = IF LabelOf[c] = None THEN id ELSE LabelOf[c]]
  /\ Goto(h, "append")
  /\ UNCHANGED <<dp, mem, vpp, client>>

(* Mutants: the slice grows and the element is not stored; the new         *)
(* interface takes the place of the last one.                              *)
AppendInterfaceUnstored(h) ==
  /\ pc[h] = "append"
  /\ mem' = [mem EXCEPT ![job[h].obj].len = job[h].n + 1]
  /\ Goto(h, "route")
  /\ UNCHANGED <<dp, ifID, job, vpp, client>>
AppendInterfaceOverLast(h) ==
  LET o == job[h].obj
      n == IF job[h].n = 0 THEN 1 ELSE job[h].n
  IN
  /\ pc[h] = "append"
  /\ mem' = [mem EXCEPT
       ![o].arr = Put(@, n, [conn |-> job[h].conn, name |-> job[h].name]),
       ![o].len = n]
  /\ Goto(h, "route")
  /\ UNCHANGED <<dp, ifID, job, vpp, client>>

AppendInterface(h) ==
  LET o == job[h].obj
      n == job[h].n + 1
  IN
  /\ pc[h] = "append"
  /\ mem' = [mem EXCEPT
       ![o].arr = Put(@, n, [conn |-> job[h].conn, name |-> job[h].name]),
       ![o].len = n]
  /\ Goto(h, "route")
  /\ UNCHANGED <<dp, ifID, job, vpp, client>>

(* MkdirAll fails: the interface stays in the configuration.               *)
MkdirFails(h) ==
  /\ "mkdir" \in Faults
  /\ pc[h] = "route"
  /\ Return(h, "refused")
  /\ UNCHANGED <<dp, mem, ifID, vpp>>

AppendRoutes(h) ==
  /\ pc[h] = "route"
  /\ mem' = [mem EXCEPT ![job[h].obj].routes = @ \cup {job[h].conn}]
  /\ Goto(h, IF NatIP THEN "nat" ELSE "send")
  /\ UNCHANGED <<dp, ifID, job, vpp, client>>

Natted(h, first) ==
  /\ pc[h] = "nat"
  /\ mem' = [mem EXCEPT ![job[h].obj].nat =
               [pool |-> @.pool \/ first, ifs |-> @.ifs \cup {job[h].name},
                dnat |-> @.dnat \cup ({job[h].conn} \cap Forwarded)]]
  /\ Goto(h, "send")
  /\ UNCHANGED <<dp, ifID, job, vpp, client>>

(* Mutant: the pool comes with the first number that was handed out.       *)
ConfigureNatNumbered(h) == Natted(h, ifID = 0)

(* The pool "only once", which is while EndpointIfID of the service is 0   *)
(* or was never set; the interface; and a mapping per forwarded port.      *)
ConfigureNat(h) == Natted(h, ifID \in {-1, 0})

-----------------------------------------------------------------------------
(* ProcessDPConfig: SendVppConfigToVppAgent.                               *)

Names(msg) == {msg.ifs[i].name : i \in DOMAIN msg.ifs}

(* The agent applies to vpp, or deletes from it, the part of a message     *)
(* under the names S, the routes R and the NAT entries nat; the later of   *)
(* two entries of a name wins.                                             *)
Programmed(msg, S, R, nat) ==
  [ifs |-> [m \in Name |->
      IF m \in S THEN msg.ifs[Max({i \in DOMAIN msg.ifs : msg.ifs[i].name = m})].conn
                 ELSE vpp.ifs[m]],
   routes |-> vpp.routes \cup R,
   nat |-> [pool |-> vpp.nat.pool \/ nat.pool, ifs |-> vpp.nat.ifs \cup nat.ifs,
            dnat |-> vpp.nat.dnat \cup nat.dnat]]

Removed(S, R, nat) ==
  [ifs |-> [m \in Name |-> IF m \in S THEN None ELSE vpp.ifs[m]],
   routes |-> vpp.routes \ R,
   nat |-> [pool |-> vpp.nat.pool /\ ~nat.pool, ifs |-> vpp.nat.ifs \ nat.ifs,
            dnat |-> vpp.nat.dnat \ nat.dnat]]

PortUnavailable(h) ==
  /\ "port" \in Faults
  /\ \/ pc[h] = "send" /\ Return(h, "refused")
     \/ pc[h] = "sendcut" /\ Return(h, "close failed")
  /\ UNCHANGED <<dp, mem, ifID, vpp>>

(* The message is what dpConfig holds now, whoever put it there.           *)
Send(h) ==
  /\ pc[h] = "send"
  /\ job' = [job EXCEPT ![h].msg =
               [ifs |-> Interfaces(dp), routes |-> mem[dp].routes,
                nat |-> mem[dp].nat]]
  /\ Goto(h, "update")
  /\ UNCHANGED <<dp, mem, ifID, vpp, client>>

Update(h) ==
  /\ pc[h] = "update"
  /\ vpp' = Programmed(job[h].msg, Names(job[h].msg), job[h].msg.routes, job[h].msg.nat)
  /\ Return(h, "open")
  /\ UNCHANGED <<dp, mem, ifID>>

(* Update fails, with any part of the message applied.                     *)
UpdateFails(h) ==
  /\ "update" \in Faults
  /\ pc[h] = "update"
  /\ \E S \in SUBSET Names(job[h].msg), R \in SUBSET job[h].msg.routes,
        nat \in {NoNat, job[h].msg.nat} :
       vpp' = Programmed(job[h].msg, S, R, nat)
  /\ Goto(h, "undo")
  /\ UNCHANGED <<dp, mem, ifID, job, client>>

(* Then the whole message is deleted, and err is the error of the Delete.  *)
Undo(h) ==
  /\ pc[h] = "undo"
  /\ vpp' = Removed(Names(job[h].msg), job[h].msg.routes, job[h].msg.nat)
  /\ Return(h, "open")
  /\ UNCHANGED <<dp, mem, ifID>>

(* A Delete fails, with any part of the message deleted.                   *)
DeleteFails(h) ==
  /\ "delete" \in Faults
  /\ \E S \in SUBSET Names(job[h].msg), R \in SUBSET job[h].msg.routes,
        nat \in {NoNat, job[h].msg.nat} :
       vpp' = Removed(S, R, nat)
  /\ \/ pc[h] = "undo" /\ Return(h, "refused")
     \/ pc[h] = "delete" /\ Return(h, "close failed")
  /\ UNCHANGED <<dp, mem, ifID>>

-----------------------------------------------------------------------------
(* Close.                                                                  *)

(* NSM closes what it has, and what was refused.                           *)
Close(h, c) ==
  /\ pc[h] = "idle"
  /\ client[c] \in {"open", "refused", "close failed", "lost"}
  /\ job' = [job EXCEPT ![h] = [NoJob EXCEPT !.conn = c, !.obj = dp]]
  /\ client' = [client EXCEPT ![c] = "closing"]
  /\ Goto(h, "find")
  /\ UNCHANGED <<dp, mem, ifID, vpp>>

(* removeClientInterface looks for the first interface with the address of *)
(* the connection; without one, an empty (nil) configuration is sent.      *)
FindInterface(h) ==
  LET found == {i \in 1..mem[dp].len : mem[dp].arr[i].conn = job[h].conn} IN
  /\ pc[h] = "find" /\ dp # None
  /\ job' = [job EXCEPT ![h].n = IF found = {} THEN 0 ELSE Min(found)]
  /\ Goto(h, IF found = {} THEN "sendcut" ELSE "cut")
  /\ UNCHANGED <<dp, mem, ifID, vpp, client>>

(* After a start there is no configuration until a Request makes one: a    *)
(* Close that comes first dereferences nil, which ends the process.  It    *)
(* may be of a connection from before a restart, or of one that the chain  *)
(* refused.                                                                *)
FindPanics(h) ==
  /\ pc[h] = "find" /\ dp = None
  /\ Goto(h, "panic")
  /\ UNCHANGED <<dp, mem, ifID, job, vpp, client>>

(* Slices Interfaces[:i] and [i+1:] joined in place: what follows moves    *)
(* down, the last place of the array keeps its element.                    *)
CutArray(o, i) ==
  [k \in DOMAIN mem[o].arr |->
     IF k \in i..(mem[o].len - 1) THEN mem[o].arr[k + 1] ELSE mem[o].arr[k]]

Cut(h, i, goneRoutes) ==
  /\ pc[h] = "cut"
  /\ IF i > mem[dp].len
     THEN Goto(h, "panic") /\ UNCHANGED <<mem, job>>
     ELSE /\ mem' = [mem EXCEPT ![dp] =
                       [arr |-> CutArray(dp, i), len |-> @.len - 1,
                        routes |-> @.routes \ goneRoutes, nat |-> @.nat]]
          /\ job' = [job EXCEPT ![h].msg =
                       [ifs |-> <<mem[dp].arr[i]>>,
                        routes |-> mem[dp].routes \cap goneRoutes,
                        nat |-> NoNat]]
          /\ Goto(h, "sendcut")
  /\ UNCHANGED <<dp, ifID, vpp, client>>

(* Mutants: the interface before or after the one found; the route stays.  *)
RemoveInterfaceAfter(h) ==
  Cut(h, IF job[h].n < mem[dp].len THEN job[h].n + 1 ELSE job[h].n, {job[h].conn})
RemoveInterfaceOnly(h) == Cut(h, job[h].n, {})

(* The interface at the index found, if the slice still reaches that far,  *)
(* leaves the configuration, with the routes of the connection, and goes   *)
(* into the one to delete; its NAT entries stay.                           *)
RemoveInterface(h) == Cut(h, job[h].n, {job[h].conn})

SendCut(h) ==
  /\ pc[h] = "sendcut"
  /\ Goto(h, "delete")
  /\ UNCHANGED <<dp, mem, ifID, job, vpp, client>>

Delete(h) ==
  /\ pc[h] = "delete"
  /\ vpp' = Removed(Names(job[h].msg), job[h].msg.routes, job[h].msg.nat)
  /\ Return(h, "closed")
  /\ UNCHANGED <<dp, mem, ifID>>

-----------------------------------------------------------------------------
ProcessEndpoint(h) == \/ BuildVppIfName(h) \/ AppendInterface(h)
                      \/ MkdirFails(h) \/ AppendRoutes(h) \/ ConfigureNat(h)

ProcessDPConfig(h) == \/ PortUnavailable(h) \/ Send(h) \/ SendCut(h)
                      \/ Update(h) \/ UpdateFails(h) \/ Undo(h)
                      \/ Delete(h) \/ DeleteFails(h)

(* A panic in any handler ends the process.                                *)
Running == \A h \in Handler : pc[h] # "panic"

Call ==
  /\ Running
  /\ \/ \E c \in Conn : ChainRefuses(c)
     \/ \E h \in Handler, c \in Conn : Request(h, c) \/ Close(h, c)
     \/ \E h \in Handler : \/ NewDPConfig(h) \/ ProcessEndpoint(h)
                           \/ FindInterface(h) \/ FindPanics(h) \/ RemoveInterface(h)
                           \/ ProcessDPConfig(h)
  /\ UNCHANGED restarts

(* Mutant: a restart resets nothing.                                       *)
ResetVppAgentNever == {vpp}

(* What the agent has after the full resync of an empty configuration,     *)
(* whose error is only logged.                                             *)
ResetVppAgent == {EmptyVpp} \cup (IF "reset" \in Faults THEN {vpp} ELSE {})

(* The process is killed, or died, and starts again with empty hands;      *)
(* connections that NSM has, or has a call under way for, it still has.    *)
Restart ==
  /\ restarts < MaxRestarts
  /\ restarts' = restarts + 1
  /\ dp' = None
  /\ mem' = [o \in Handler |-> EmptyConfig]
  /\ ifID' = -1
  /\ pc' = [h \in Handler |-> "idle"]
  /\ job' = [h \in Handler |-> NoJob]
  /\ vpp' \in ResetVppAgent
  /\ client' = [c \in Conn |->
       IF client[c] \in {"new", "refused", "closed"} THEN client[c] ELSE "lost"]

Next == Call \/ Restart

Spec == Init /\ [][Next]_vars

-----------------------------------------------------------------------------
(* Properties.                                                             *)

Configured == IF dp = None THEN {}
              ELSE {mem[dp].arr[i].conn : i \in 1..mem[dp].len}

HasInterface(c) == \E m \in Name : vpp.ifs[m] = c

(* The configuration the next Request sends holds the interface of every   *)
(* connection a client has, whatever failed, and whatever other clients    *)
(* were refused or closed before.                                          *)
OpenConfigured == \A c \in Conn : client[c] = "open" => c \in Configured

(* README of vl3-nse, line 12: "program VPP agent for the NSC connection   *)
(* with the request parameters".  A client whose request succeeded has its *)
(* interface and its route in VPP until it closes.                         *)
OpenProgrammed ==
  \A c \in Conn : client[c] = "open" => HasInterface(c) /\ c \in vpp.routes

(* composite.go:67, "Removes the client interfaces from the dpConfig", and *)
(* 142, "Remove the interfaces from the vpp agent".  Nothing of a client   *)
(* whose Close succeeded is left: neither in VPP nor in what is sent next. *)
ClosedIsGone ==
  \A c \in Conn : client[c] = "closed" =>
    /\ c \notin Configured
    /\ ~HasInterface(c) /\ c \notin vpp.routes

(* Close deletes the interface of its own connection, "a new               *)
(* *vpp.ConfigData which contains the removed interfaces": composite.go:68.*)
(* The index it has found is never beyond the slice when it cuts: if the   *)
(* process dies in a Close, then because there is no configuration at all. *)
CloseCutsOwn ==
  \A h \in Handler :
    /\ pc[h] = "panic" => dp = None
    /\ pc[h] \in {"sendcut", "delete"} =>
         \A i \in DOMAIN job[h].msg.ifs : job[h].msg.ifs[i].conn = job[h].conn

(* Between calls, VPP has exactly the interfaces, the routes and the NAT   *)
(* entries of the composite's configuration: the incremental updates and   *)
(* deletions add up to it, also when the process was killed half way.      *)
VppMirrorsConfig ==
  (\A h \in Handler : pc[h] = "idle") =>
    /\ {c \in Conn : HasInterface(c)} = Configured
    /\ vpp.routes = IF dp = None THEN {} ELSE mem[dp].routes
    /\ vpp.nat = IF dp = None THEN NoNat ELSE mem[dp].nat

(* backend.go:183, "enable NAT on the interface", and 190, "add static NAT *)
(* mappings".  With NSE_NAT_IP set, an open client has NAT on the          *)
(* interface it really got, its ports forwarded, and a pool to serve them. *)
NatServed ==
  NatIP => \A c \in Conn : client[c] = "open" =>
    /\ vpp.nat.pool
    /\ \E m \in vpp.nat.ifs : vpp.ifs[m] = c
    /\ c \in Forwarded => c \in vpp.nat.dnat

-----------------------------------------------------------------------------
(* The contract: a table of programmed clients, changed one at a time.     *)

told == [c \in Conn |-> IF client[c] \in {"new", "closed"} THEN "idle" ELSE client[c]]

Contract == INSTANCE DataplaneContract
  WITH programmed <- {c \in Conn : HasInterface(c) /\ c \in vpp.routes}

(* Sending the whole configuration for each Request, and a part of it for  *)
(* each Close, comes to programming and removing that one client: nobody   *)
(* else is connected, disturbed or left over on the way.                   *)
ImplementsContract == Contract!Spec
=============================================================================
