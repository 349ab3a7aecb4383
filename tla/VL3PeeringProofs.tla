-------------------------- MODULE VL3PeeringProofs --------------------------
(***************************************************************************)
(* Proofs about VL3Peering, for every set of endpoints and goroutines:     *)
(* type correctness, the mutual exclusion of the peer entries, requests to *)
(* unconnected peers only, the agreement of the two ends, what becomes of  *)
(* the interfaces of a link and the implementation of PeeringContract.     *)
(***************************************************************************)
EXTENDS VL3Peering, TLAPS

Visiting == {"lock", "call", "program"}

(* The phases of a call whose handler has decided the state of the entry.  *)
Decided == {"handled", "accepted", "refused"}

(* The parts of the inductive invariant.  During a visit cur is a peer,    *)
(* never the empty name.                                                   *)
VisitsPeers ==
  \A n \in NSE, w \in Worker : pc[n][w] \in Visiting => cur[n][w] \in NSE

TypeInv == TypeOK /\ VisitsPeers

(* The state of an entry tells whether its request has been sent.          *)
AttemptCounted ==
  \A n \in NSE, p \in Name :
    /\ state[n][p] \in {"ABSENT", "NOTCONN"} => performed[n][p] = 0
    /\ state[n][p] \in {"INPROG", "CONN", "CONNERR"} => performed[n][p] = 1
    /\ performed[n][p] \in {0, 1}

(* A call that somebody waits for is the one call of that worker's visit.  *)
CallsAwaited ==
  \A c \in calls : c.by # None =>
    /\ pc[c.src][c.by] = "call"
    /\ cur[c.src][c.by] = c.dst
    /\ \A d \in calls : d.src = c.src /\ d.by = c.by => d = c

(* Names, when they are stored before any request: an endpoint that works  *)
(* knows its own name, labels its calls with it and never calls itself.    *)
NamesKnown ==
  \A n \in NSE : /\ registered[n]
                 /\ myName[n] \in {n, NoName}
                 /\ \A w \in Worker : pc[n][w] # "idle" => myName[n] = n

OthersOnly ==
  /\ \A n \in NSE, w \in Worker : pc[n][w] \in Visiting => cur[n][w] # n
  /\ \A c \in calls : c.label = c.src /\ c.src # c.dst
  /\ \A k \in conns : k.label = k.src /\ k.src # k.dst

(* Traces of an attempt: it was counted, and once the callee has answered, *)
(* or the link exists, the callee holds the caller as RX.                  *)
CallsTraced ==
  /\ \A c \in calls : performed[c.src][c.dst] = 1
  /\ \A c \in calls : c.phase \in Decided => state[c.dst][c.label] = "RX"
  /\ \A k \in conns : /\ performed[k.src][k.dst] = 1
                      /\ state[k.dst][k.label] = "RX"
  /\ \A n \in NSE, w \in Worker :
       pc[n][w] = "program" => state[cur[n][w]][n] = "RX"

IInv == /\ TypeInv /\ ConnectsUnderPeerLock /\ AttemptCounted /\ CallsAwaited

(* Names, whenever they are stored: an endpoint labels its requests with   *)
(* its own name or with none, and the callee holds it under that label     *)
(* from the answer on.                                                     *)
LabelsOwn ==
  /\ \A n \in NSE : myName[n] \in {n, NoName}
  /\ \A c \in calls : c.label \in {c.src, NoName}
  /\ \A k \in conns : k.label \in {k.src, NoName}

AnswersHeld ==
  /\ \A c \in calls : c.phase \in Decided => state[c.dst][c.label] = "RX"
  /\ \A n \in NSE, w \in Worker :
       pc[n][w] = "program" => \E q \in {n, NoName} : state[cur[n][w]][q] = "RX"

HInv == IInv /\ LabelsOwn /\ AnswersHeld /\ ConnHeldSomehow
NInv == /\ IInv /\ NamesKnown /\ OthersOnly /\ CallsTraced
        /\ ConnAgreed /\ NoSelfPeering

-----------------------------------------------------------------------------
(* Types.                                                                  *)

(* Everything has its type at the start.                                   *)
LEMMA TypeInit == Init => TypeInv
  BY ConstantsAssumption
     DEF Init, TypeInv, TypeOK, VisitsPeers, Visiting, PeerState, Name

(* addPeer keeps the table of peer states a table of peer states.          *)
LEMMA AddedPeerType ==
  ASSUME TypeOK, NEW n \in NSE, NEW p \in Name
  PROVE  AddedPeer(n, p) \in [NSE -> [Name -> PeerState]]
  BY DEF TypeOK, AddedPeer, PeerState

(* SetMyNseName stores a name.                                             *)
LEMMA SetMyNseNameType ==
  ASSUME TypeOK, NEW n \in NSE, NEW named \in BOOLEAN, SetMyNseName(n, named)
  PROVE  myName' \in [NSE -> Name]
  BY DEF TypeOK, SetMyNseName, Name

IfaceKind == {"none", "client", "endpoint"}

(* An Update leaves a table of interfaces.                                 *)
LEMMA UpdatedType ==
  ASSUME TypeOK, NEW n \in NSE, NEW names, NEW ok, Updated(n, names, ok)
  PROVE  iface' \in [NSE -> [Name -> IfaceKind]]
<1>1. PICK put \in SUBSET names, gone \in SUBSET names :
         iface' = [iface EXCEPT ![n] =
                     [p \in Name |-> IF p \in put THEN "endpoint"
                                     ELSE IF p \in gone THEN "none" ELSE @[p]]]
  BY DEF Updated
<1>2. iface \in [NSE -> [Name -> IfaceKind]]
  BY DEF TypeOK, IfaceKind
<1>3. [p \in Name |-> IF p \in put THEN "endpoint"
                      ELSE IF p \in gone THEN "none" ELSE iface[n][p]]
        \in [Name -> IfaceKind]
  BY <1>2 DEF IfaceKind
<1> QED
  BY <1>1, <1>2, <1>3

(* So does Close at the endpoint, and the configuration keeps its type.    *)
LEMMA ClosedType ==
  ASSUME TypeOK, NEW n \in NSE, NEW p \in Name, Closed(n, p)
  PROVE  /\ iface' \in [NSE -> [Name -> IfaceKind]]
         /\ offered' \in [NSE -> SUBSET Name]
<1>1. iface \in [NSE -> [Name -> IfaceKind]]
  BY DEF TypeOK, IfaceKind
<1>2. PICK i \in {"none", iface[n][p]} : iface' = [iface EXCEPT ![n][p] = i]
  BY DEF Closed
<1>3. i \in IfaceKind
  BY <1>1 DEF IfaceKind
<1>4. iface' \in [NSE -> [Name -> IfaceKind]]
  BY <1>1, <1>2, <1>3
<1>5. PICK left : offered' = [offered EXCEPT ![n] = (@ \ {p}) \cup (@ \cap left)]
  BY DEF Closed
<1>6. offered' \in [NSE -> SUBSET Name]
  BY <1>5 DEF TypeOK
<1> QED
  BY <1>4, <1>6

(* The end of a visit keeps every type.                                    *)
LEMMA EndVisitType ==
  ASSUME TypeInv, NEW n \in NSE, NEW w \in Worker, NEW s \in {"CONN", "CONNERR"},
         EndVisit(n, w, s), calls' \subseteq Call, conns' \subseteq Conn,
         iface' \in [NSE -> [Name -> IfaceKind]], offered' = offered
  PROVE  TypeInv'
<1> USE DEF EndVisit
<1>1. cur[n][w] \in Name /\ NoName \in Name
  BY DEF TypeInv, TypeOK, Name
<1>2. TypeOK'
  BY <1>1 DEF TypeInv, TypeOK, PeerState, nameVars, IfaceKind
<1>3. VisitsPeers'
  BY <1>1 DEF TypeInv, TypeOK, VisitsPeers, Visiting
<1> QED
  BY <1>2, <1>3 DEF TypeInv

(* No step breaks a type, and no visit is of the empty name.               *)
LEMMA TypeNext == TypeInv /\ [Next]_vars => TypeInv'
<1> SUFFICES ASSUME TypeInv, [Next]_vars PROVE TypeInv'
  OBVIOUS
<1> USE ConstantsAssumption DEF TypeInv
<1>1. CASE UNCHANGED vars
  BY <1>1 DEF TypeOK, VisitsPeers, vars
<1>2. ASSUME NEW n \in NSE, Start(n) PROVE TypeInv'
  BY <1>2 DEF TypeOK, VisitsPeers, Start, peerVars, workerVars, vppVars
<1>3. ASSUME NEW n \in NSE, NscRequestFindFails(n) PROVE TypeInv'
  BY <1>3, SetMyNseNameType
     DEF TypeOK, VisitsPeers, NscRequestFindFails, peerVars, workerVars, vppVars
<1>4. ASSUME NEW n \in NSE, NEW w \in Worker, NscRequest(n, w) PROVE TypeInv'
  <2>1. myName' \in [NSE -> Name]
    BY <1>4, SetMyNseNameType DEF NscRequest
  <2>2. /\ todo' \in [NSE -> [Worker -> SUBSET NSE]]
        /\ pc' \in [NSE -> [Worker -> {"idle", "loop", "lock", "call", "program"}]]
    BY <1>4 DEF NscRequest, TypeOK
  <2>3. VisitsPeers'
    BY <1>4 DEF NscRequest, TypeOK, VisitsPeers, Visiting
  <2> QED
    BY <1>4, <2>1, <2>2, <2>3 DEF NscRequest, TypeOK, peerVars, vppVars
<1>5. ASSUME NEW n \in NSE, NEW w \in Worker, SkipSelf(n, w) PROVE TypeInv'
  BY <1>5 DEF TypeOK, VisitsPeers, SkipSelf, nameVars, peerVars, vppVars
<1>6. ASSUME NEW n \in NSE, NEW w \in Worker, AddPeer(n, w) PROVE TypeInv'
  <2>1. PICK p \in todo[n][w] \ {myName[n]} :
           /\ state' = AddedPeer(n, p)
           /\ todo' = [todo EXCEPT ![n][w] = @ \ {p}]
           /\ cur' = [cur EXCEPT ![n][w] = p]
    BY <1>6 DEF AddPeer
  <2>2. p \in NSE /\ p \in Name
    BY DEF TypeOK, Name
  <2>3. state' \in [NSE -> [Name -> PeerState]]
    BY <2>1, <2>2, AddedPeerType
  <2>4. /\ todo' \in [NSE -> [Worker -> SUBSET NSE]]
        /\ cur' \in [NSE -> [Worker -> Name]]
        /\ pc' \in [NSE -> [Worker -> {"idle", "loop", "lock", "call", "program"}]]
    BY <1>6, <2>1, <2>2 DEF AddPeer, TypeOK
  <2>5. VisitsPeers'
    BY <1>6, <2>1, <2>2 DEF AddPeer, TypeOK, VisitsPeers, Visiting
  <2> QED
    BY <1>6, <2>3, <2>4, <2>5 DEF AddPeer, TypeOK, nameVars, vppVars
<1>7. ASSUME NEW n \in NSE, NEW w \in Worker, LoopEnds(n, w) PROVE TypeInv'
  BY <1>7 DEF TypeOK, VisitsPeers, Visiting, LoopEnds, nameVars, peerVars, vppVars
<1>8. ASSUME NEW n \in NSE, NEW w \in Worker, VisitKnown(n, w) PROVE TypeInv'
  <2>1. NoName \in Name
    BY DEF Name
  <2> QED
    BY <1>8, <2>1
       DEF TypeOK, VisitsPeers, Visiting, VisitKnown, nameVars, peerVars, vppVars
<1>9. ASSUME NEW n \in NSE, NEW w \in Worker, BeginConnect(n, w) PROVE TypeInv'
  <2> DEFINE p == cur[n][w]
             c == [src |-> n, label |-> myName[n], dst |-> p,
                   by |-> w, phase |-> "sent"]
  <2> USE <1>9 DEF BeginConnect, ConnectFrom
  <2>1. p \in NSE /\ p \in Name
    BY DEF VisitsPeers, Visiting, Name
  <2>2. c \in Call
    BY <2>1 DEF TypeOK, Call
  <2>3. /\ state' \in [NSE -> [Name -> PeerState]]
        /\ holder' \in [NSE -> [Name -> Worker \cup {None}]]
        /\ performed' \in [NSE -> [Name -> Nat]]
        /\ pc' \in [NSE -> [Worker -> {"idle", "loop", "lock", "call", "program"}]]
    BY <2>1 DEF TypeOK, PeerState
  <2>4. calls' \subseteq Call
    BY <2>2 DEF TypeOK
  <2>5. VisitsPeers'
    BY <2>1 DEF TypeOK, VisitsPeers, Visiting
  <2> QED
    BY <2>3, <2>4, <2>5 DEF TypeOK, nameVars, vppVars
<1>10. ASSUME NEW n \in NSE, NEW w \in Worker, CallReturns(n, w) PROVE TypeInv'
  <2>1. PICK c \in Pending(n, w) :
          /\ calls' = calls \ {c}
          /\ conns' = conns \cup {[src |-> n, label |-> c.label, dst |-> c.dst]}
    BY <1>10 DEF CallReturns
  <2>2. c \in Call /\ [src |-> n, label |-> c.label, dst |-> c.dst] \in Conn
    BY DEF Pending, TypeOK, Call, Conn
  <2>3. calls' \subseteq Call /\ conns' \subseteq Conn
    BY <2>1, <2>2 DEF TypeOK
  <2>4. /\ pc' \in [NSE -> [Worker -> {"idle", "loop", "lock", "call", "program"}]]
        /\ VisitsPeers'
    BY <1>10 DEF CallReturns, TypeOK, VisitsPeers, Visiting
  <2> QED
    BY <1>10, <2>3, <2>4 DEF CallReturns, TypeOK, nameVars, peerVars, vppVars
<1>11. ASSUME NEW n \in NSE, NEW w \in Worker, CallFails(n, w) PROVE TypeInv'
  <2>1. calls' \subseteq Call /\ conns' \subseteq Conn
    BY <1>11 DEF CallFails, TypeOK
  <2>2. iface' \in [NSE -> [Name -> IfaceKind]] /\ offered' = offered
    BY <1>11 DEF CallFails, TypeOK, vppVars, IfaceKind
  <2> QED
    BY <1>11, <2>1, <2>2, EndVisitType DEF CallFails
<1>12. ASSUME NEW n \in NSE, NEW w \in Worker, CallTimesOut(n, w) PROVE TypeInv'
  <2> PICK c \in Pending(n, w) :
             calls' \subseteq (calls \ {c}) \cup {[c EXCEPT !.by = None]}
    BY <1>12 DEF CallTimesOut
  <2>1. c \in Call
    BY DEF Pending, TypeOK
  <2>2. [c EXCEPT !.by = None] \in Call
    BY <2>1 DEF Call
  <2>3. calls' \subseteq Call /\ conns' \subseteq Conn
    BY <1>12, <2>2 DEF CallTimesOut, TypeOK
  <2>4. iface' \in [NSE -> [Name -> IfaceKind]] /\ offered' = offered
    BY <1>12 DEF CallTimesOut, TypeOK, vppVars, IfaceKind
  <2> QED
    BY <1>12, <2>3, <2>4, EndVisitType DEF CallTimesOut
<1>13. ASSUME NEW n \in NSE, NEW w \in Worker, ProgramDone(n, w) PROVE TypeInv'
  <2>1. PICK s \in {"CONN", "CONNERR"}, i \in {"client", "none"} :
          EndVisit(n, w, s) /\ iface' = [iface EXCEPT ![n][cur[n][w]] = i]
    BY <1>13 DEF ProgramDone
  <2>2. calls' \subseteq Call /\ conns' \subseteq Conn /\ offered' = offered
    BY <1>13 DEF ProgramDone, TypeOK
  <2>3. iface' \in [NSE -> [Name -> IfaceKind]]
    BY <2>1 DEF TypeOK, IfaceKind
  <2> QED
    BY <2>1, <2>2, <2>3, EndVisitType
<1>14. ASSUME NEW c \in calls, RxAddPeer(c) PROVE TypeInv'
  <2>1. c \in Call /\ c.dst \in NSE /\ c.label \in Name
    BY DEF TypeOK, Call
  <2>2. [c EXCEPT !.phase = "added"] \in Call
    BY <2>1 DEF Call
  <2>3. calls' \subseteq Call
    BY <1>14, <2>2 DEF RxAddPeer, TypeOK
  <2>4. state' \in [NSE -> [Name -> PeerState]]
    BY <1>14, <2>1, AddedPeerType DEF RxAddPeer
  <2> QED
    BY <1>14, <2>3, <2>4
       DEF RxAddPeer, TypeOK, VisitsPeers, nameVars, workerVars, vppVars
<1>15. ASSUME NEW c \in calls, RxProcess(c) PROVE TypeInv'
  <2> USE <1>15 DEF RxProcess, Handle
  <2>1. c \in Call /\ c.dst \in NSE /\ c.label \in Name
    BY DEF TypeOK, Call
  <2>2. [c EXCEPT !.phase = "handled"] \in Call
    BY <2>1 DEF Call
  <2>3. calls' \subseteq Call
    BY <2>2 DEF TypeOK
  <2>4. state' \in [NSE -> [Name -> PeerState]]
    BY <2>1 DEF TypeOK, PeerState
  <2> QED
    BY <2>3, <2>4 DEF TypeOK, VisitsPeers, nameVars, workerVars, vppVars
<1>16. ASSUME NEW c \in calls, DropLate(c) PROVE TypeInv'
  BY <1>16 DEF TypeOK, VisitsPeers, DropLate, nameVars, peerVars, workerVars, vppVars
<1>17. ASSUME NEW k \in conns, Redeliver(k) PROVE TypeInv'
  <2>1. [src |-> k.src, label |-> k.label, dst |-> k.dst,
         by |-> None, phase |-> "sent"] \in Call
    BY DEF TypeOK, Call, Conn
  <2> QED
    BY <1>17, <2>1
       DEF TypeOK, VisitsPeers, Redeliver, nameVars, peerVars, workerVars, vppVars
<1>18. ASSUME NEW n \in NSE, NEW p \in Name, Closed(n, p), conns' \subseteq conns
       PROVE  TypeInv'
  <2>1. /\ iface' \in [NSE -> [Name -> {"none", "client", "endpoint"}]]
        /\ offered' \in [NSE -> SUBSET Name]
    BY <1>18, ClosedType DEF IfaceKind
  <2> QED
    BY <1>18, <2>1 DEF TypeOK, VisitsPeers, Closed, nameVars, peerVars, workerVars
<1>19. ASSUME NEW k \in conns, Close(k) PROVE TypeInv'
  <2>1. k.dst \in NSE /\ k.label \in Name
    BY DEF TypeOK, Conn
  <2> QED
    BY <1>18, <1>19, <2>1 DEF Close
<1>20. ASSUME NEW n \in NSE, NEW p \in Name, CloseUnkept(n, p) PROVE TypeInv'
  BY <1>18, <1>20 DEF CloseUnkept
<1>21. ASSUME NEW c \in calls, NEW answer \in {"accepted", "refused"},
              Answered(c, answer)
       PROVE  calls' \subseteq Call
  <2>1. c \in Call
    BY DEF TypeOK
  <2>2. [c EXCEPT !.phase = answer] \in Call
    BY <2>1 DEF Call
  <2> QED
    BY <1>21, <2>2 DEF Answered, TypeOK
<1>22. ASSUME NEW c \in calls, RxProgram(c) PROVE TypeInv'
  <2>1. c.dst \in NSE /\ c.label \in Name
    BY DEF TypeOK, Call
  <2>2. PICK ok \in BOOLEAN :
          /\ Updated(c.dst, offered[c.dst] \cup {c.label}, ok)
          /\ Answered(c, IF ok THEN "accepted" ELSE "refused")
    BY <1>22 DEF RxProgram
  <2>3. iface' \in [NSE -> [Name -> {"none", "client", "endpoint"}]]
    BY <2>1, <2>2, UpdatedType DEF IfaceKind
  <2>4. offered' \in [NSE -> SUBSET Name]
    BY <1>22, <2>1 DEF RxProgram, TypeOK
  <2>5. calls' \subseteq Call
    BY <2>2, <1>21
  <2> QED
    BY <1>22, <2>3, <2>4, <2>5
       DEF RxProgram, TypeOK, VisitsPeers, nameVars, peerVars, workerVars
<1>23. ASSUME NEW c \in calls, RxRefused(c) PROVE TypeInv'
  <2>1. calls' \subseteq Call
    BY <1>21, <1>23 DEF RxRefused
  <2> QED
    BY <1>23, <2>1
       DEF RxRefused, TypeOK, VisitsPeers, nameVars, peerVars, workerVars, vppVars
<1>24. ASSUME NEW n \in NSE, Resend(n) PROVE TypeInv'
  <2>1. iface' \in [NSE -> [Name -> {"none", "client", "endpoint"}]]
    BY <1>24, UpdatedType DEF Resend, IfaceKind
  <2> QED
    BY <1>24, <2>1 DEF Resend, TypeOK, VisitsPeers, nameVars, peerVars, workerVars
<1> QED
  BY <1>1, <1>2, <1>3, <1>4, <1>5, <1>6, <1>7, <1>8, <1>9, <1>10, <1>11,
     <1>12, <1>13, <1>14, <1>15, <1>16, <1>17, <1>19, <1>20, <1>22, <1>23, <1>24
     DEF Next, WorkerStep, Discover, Visit, Answer, HandlerStep, NsmStep

(* What the callee's chain after the handler, and NSM when it drops or     *)
(* closes, have in common: names, entries and workers stay as they are,    *)
(* and at most one call changes, from handled to answered.                 *)
Quiet ==
  /\ UNCHANGED <<nameVars, peerVars, workerVars>>
  /\ conns' \subseteq conns
  /\ \/ calls' \subseteq calls
     \/ \E c \in calls, a \in {"accepted", "refused"} :
          /\ c.phase = "handled"
          /\ calls' \subseteq (calls \ {c}) \cup {[c EXCEPT !.phase = a]}

StepKind ==
  \/ Quiet
  \/ \E n \in NSE : Start(n) \/ NscRequestFindFails(n)
  \/ \E n \in NSE, w \in Worker : NscRequest(n, w) \/ WorkerStep(n, w)
  \/ \E c \in calls : RxAddPeer(c) \/ RxProcess(c)
  \/ \E k \in conns : Redeliver(k)

(* Every step is quiet or one of those that the lemmas below go through.   *)
LEMMA StepKinds ==
  ASSUME [Next]_vars
  PROVE  StepKind
<1>1. CASE UNCHANGED vars
  BY <1>1 DEF StepKind, Quiet, vars, nameVars, peerVars, workerVars
<1>2. ASSUME NEW c \in calls, NEW a \in {"accepted", "refused"}, Answered(c, a),
             c.phase = "handled", UNCHANGED <<nameVars, peerVars, workerVars, conns>>
      PROVE  Quiet
  <2>1. calls' \subseteq (calls \ {c}) \cup {[c EXCEPT !.phase = a]}
    BY <1>2 DEF Answered
  <2> QED
    BY <1>2, <2>1 DEF Quiet
<1>3. ASSUME NEW c \in calls, RxProgram(c) \/ RxRefused(c) PROVE Quiet
  BY <1>2, <1>3 DEF RxProgram, RxRefused
<1>4. ASSUME NEW n \in NSE, Resend(n) PROVE Quiet
  BY <1>4 DEF Resend, Quiet
<1>5. ASSUME NEW c \in calls, DropLate(c) PROVE Quiet
  BY <1>5 DEF DropLate, Quiet
<1>6. ASSUME NEW k \in conns, Close(k) PROVE Quiet
  BY <1>6 DEF Close, Closed, Quiet
<1>7. ASSUME NEW n \in NSE, NEW p \in Name, CloseUnkept(n, p) PROVE Quiet
  BY <1>7 DEF CloseUnkept, Closed, Quiet
<1> QED
  BY <1>1, <1>3, <1>4, <1>5, <1>6, <1>7 DEF StepKind, Next, HandlerStep, NsmStep

-----------------------------------------------------------------------------
(* The mutex of an entry.                                                  *)

(* What the invariant says at the worker that ends a visit.                *)
LEMMA HolderAtEnd ==
  ASSUME TypeInv, ConnectsUnderPeerLock, NEW n \in NSE, NEW w \in Worker,
         pc[n][w] \in {"call", "program"}
  PROVE  /\ cur[n][w] \in NSE /\ cur[n][w] \in Name
         /\ holder[n][cur[n][w]] = w /\ w # None
         /\ state[n][cur[n][w]] = "INPROG"
  BY ConstantsAssumption
     DEF TypeInv, VisitsPeers, Visiting, ConnectsUnderPeerLock, Name

(* The end of a visit releases the one mutex the worker held.              *)
LEMMA EndVisitUnlocks ==
  ASSUME TypeInv, ConnectsUnderPeerLock, NEW n \in NSE, NEW w \in Worker,
         pc[n][w] \in {"call", "program"}, NEW s \in {"CONN", "CONNERR"},
         EndVisit(n, w, s)
  PROVE  ConnectsUnderPeerLock'
<1>1. /\ cur[n][w] \in Name /\ holder[n][cur[n][w]] = w /\ w # None
      /\ state[n][cur[n][w]] = "INPROG"
  BY HolderAtEnd
<1>2. ASSUME NEW m \in NSE, NEW p \in Name
      PROVE  state'[m][p] = "INPROG" <=> holder'[m][p] # None
  BY <1>1 DEF EndVisit, TypeInv, TypeOK, ConnectsUnderPeerLock
<1>3. ASSUME NEW m \in NSE, NEW p \in Name, NEW v \in Worker
      PROVE  holder'[m][p] = v <=> /\ pc'[m][v] \in {"call", "program"}
                                   /\ cur'[m][v] = p
  <2>1. CASE m = n /\ v = w
    BY <1>1, <2>1, ConstantsAssumption
       DEF EndVisit, TypeInv, TypeOK, ConnectsUnderPeerLock
  <2>2. CASE ~(m = n /\ v = w)
    BY <1>1, <2>2, ConstantsAssumption
       DEF EndVisit, TypeInv, TypeOK, ConnectsUnderPeerLock
  <2> QED
    BY <2>1, <2>2
<1> QED
  BY <1>2, <1>3 DEF ConnectsUnderPeerLock

(* Every step keeps "in progress" and "mutex held" equivalent.             *)
LEMMA LockNext ==
  TypeInv /\ ConnectsUnderPeerLock /\ [Next]_vars => ConnectsUnderPeerLock'
<1> SUFFICES ASSUME TypeInv, ConnectsUnderPeerLock, [Next]_vars
             PROVE  ConnectsUnderPeerLock'
  OBVIOUS
<1> USE ConstantsAssumption DEF TypeInv
<1>1. CASE Quiet
  BY <1>1 DEF ConnectsUnderPeerLock, Quiet, peerVars, workerVars
<1>2. ASSUME NEW n \in NSE, Start(n) \/ NscRequestFindFails(n)
      PROVE  ConnectsUnderPeerLock'
  BY <1>2 DEF ConnectsUnderPeerLock, Start, NscRequestFindFails, peerVars, workerVars
<1>3. ASSUME NEW n \in NSE, NEW w \in Worker, NscRequest(n, w)
      PROVE  ConnectsUnderPeerLock'
  BY <1>3 DEF ConnectsUnderPeerLock, NscRequest, peerVars, TypeOK
<1>4. ASSUME NEW n \in NSE, NEW w \in Worker, SkipSelf(n, w) \/ LoopEnds(n, w)
      PROVE  ConnectsUnderPeerLock'
  <2>1. CASE SkipSelf(n, w)
    BY <2>1 DEF ConnectsUnderPeerLock, SkipSelf, peerVars
  <2>2. CASE LoopEnds(n, w)
    BY <2>2 DEF ConnectsUnderPeerLock, LoopEnds, peerVars, TypeOK
  <2> QED
    BY <1>4, <2>1, <2>2
<1>5. ASSUME NEW n \in NSE, NEW w \in Worker, AddPeer(n, w)
      PROVE  ConnectsUnderPeerLock'
  <2>1. PICK p \in todo[n][w] \ {myName[n]} :
           /\ state' = AddedPeer(n, p)
           /\ cur' = [cur EXCEPT ![n][w] = p]
    BY <1>5 DEF AddPeer
  <2>2. p \in Name
    BY DEF Name, TypeOK
  <2>3. ASSUME NEW m \in NSE, NEW q \in Name
        PROVE  state'[m][q] = "INPROG" <=> state[m][q] = "INPROG"
    BY <2>1, <2>2 DEF AddedPeer, TypeOK
  <2> QED
    BY <1>5, <2>1, <2>2, <2>3 DEF AddPeer, ConnectsUnderPeerLock, TypeOK
<1>6. ASSUME NEW n \in NSE, NEW w \in Worker, VisitKnown(n, w)
      PROVE  ConnectsUnderPeerLock'
  BY <1>6 DEF ConnectsUnderPeerLock, VisitKnown, peerVars, TypeOK
<1>7. ASSUME NEW n \in NSE, NEW w \in Worker, BeginConnect(n, w)
      PROVE  ConnectsUnderPeerLock'
  <2> USE <1>7 DEF BeginConnect, ConnectFrom, ConnectsUnderPeerLock
  <2>1. cur[n][w] \in Name
    BY DEF TypeOK
  <2>2. ASSUME NEW m \in NSE, NEW p \in Name
        PROVE  state'[m][p] = "INPROG" <=> holder'[m][p] # None
    BY <2>1 DEF TypeOK
  <2>3. ASSUME NEW m \in NSE, NEW p \in Name, NEW v \in Worker
        PROVE  holder'[m][p] = v <=> /\ pc'[m][v] \in {"call", "program"}
                                     /\ cur'[m][v] = p
    BY <2>1 DEF TypeOK
  <2> QED
    BY <2>2, <2>3
<1>8. ASSUME NEW n \in NSE, NEW w \in Worker, CallReturns(n, w)
      PROVE  ConnectsUnderPeerLock'
  BY <1>8 DEF ConnectsUnderPeerLock, CallReturns, peerVars, TypeOK
<1>9. ASSUME NEW n \in NSE, NEW w \in Worker,
             CallFails(n, w) \/ CallTimesOut(n, w)
      PROVE  ConnectsUnderPeerLock'
  BY <1>9, EndVisitUnlocks DEF CallFails, CallTimesOut
<1>10. ASSUME NEW n \in NSE, NEW w \in Worker, ProgramDone(n, w)
       PROVE  ConnectsUnderPeerLock'
  BY <1>10, EndVisitUnlocks DEF ProgramDone
<1>11. ASSUME NEW c \in calls, RxAddPeer(c) PROVE ConnectsUnderPeerLock'
  <2>1. c.dst \in NSE /\ c.label \in Name
    BY DEF TypeOK, Call
  <2>2. ASSUME NEW m \in NSE, NEW q \in Name
        PROVE  state'[m][q] = "INPROG" <=> state[m][q] = "INPROG"
    BY <1>11, <2>1 DEF RxAddPeer, AddedPeer, TypeOK
  <2> QED
    BY <1>11, <2>2 DEF RxAddPeer, ConnectsUnderPeerLock, workerVars
<1>12. ASSUME NEW c \in calls, RxProcess(c) PROVE ConnectsUnderPeerLock'
  <2>1. c.dst \in NSE /\ c.label \in Name
    BY DEF TypeOK, Call
  <2>2. ASSUME NEW m \in NSE, NEW q \in Name
        PROVE  state'[m][q] = "INPROG" <=> state[m][q] = "INPROG"
    BY <1>12, <2>1 DEF RxProcess, Handle, ConnectsUnderPeerLock, TypeOK
  <2> QED
    BY <1>12, <2>2 DEF RxProcess, Handle, ConnectsUnderPeerLock, workerVars
<1>13. ASSUME NEW k \in conns, Redeliver(k) PROVE ConnectsUnderPeerLock'
  BY <1>13 DEF ConnectsUnderPeerLock, Redeliver, peerVars, workerVars
<1> QED
  BY <1>1, <1>2, <1>3, <1>4, <1>5, <1>6, <1>7, <1>8, <1>9, <1>10, <1>11,
     <1>12, <1>13, StepKinds
     DEF StepKind, WorkerStep, Discover, Visit, Answer

-----------------------------------------------------------------------------
(* Entries and requests.                                                   *)

(* What a step can do to the entries.                                      *)
Enters(n, p) == /\ state' = AddedPeer(n, p)
                /\ UNCHANGED <<connErr, holder, performed>>

Ends(n, w, s) == /\ pc[n][w] \in {"call", "program"}
                 /\ s = "CONN" => pc[n][w] = "program"
                 /\ EndVisit(n, w, s)

PeerChange ==
  \/ UNCHANGED peerVars
  \/ \E n \in NSE, w \in Worker : \E p \in todo[n][w] \ {myName[n]} :
       pc[n][w] = "loop" /\ Enters(n, p)
  \/ \E c \in calls : Enters(c.dst, c.label)
  \/ \E n \in NSE, w \in Worker : BeginConnect(n, w)
  \/ \E n \in NSE, w \in Worker, s \in {"CONN", "CONNERR"} : Ends(n, w, s)
  \/ \E c \in calls : RxProcess(c)

(* The only steps that touch the peer entries: an entry is created, an     *)
(* attempt begins or ends, or a handler makes the entry RX.                *)
LEMMA PeerStep ==
  ASSUME TypeInv, [Next]_vars
  PROVE  PeerChange
<1> USE DEF PeerChange
<1>1. CASE Quiet
  BY <1>1 DEF Quiet
<1>2. ASSUME NEW n \in NSE, Start(n) \/ NscRequestFindFails(n) PROVE PeerChange
  BY <1>2 DEF Start, NscRequestFindFails
<1>3. ASSUME NEW n \in NSE, NEW w \in Worker,
             \/ NscRequest(n, w) \/ SkipSelf(n, w) \/ LoopEnds(n, w)
             \/ VisitKnown(n, w) \/ CallReturns(n, w)
      PROVE  PeerChange
  BY <1>3 DEF NscRequest, SkipSelf, LoopEnds, VisitKnown, CallReturns
<1>4. ASSUME NEW n \in NSE, NEW w \in Worker, AddPeer(n, w) PROVE PeerChange
  BY <1>4 DEF AddPeer, Enters
<1>5. ASSUME NEW n \in NSE, NEW w \in Worker,
             CallFails(n, w) \/ CallTimesOut(n, w)
      PROVE  PeerChange
  <2>1. Ends(n, w, "CONNERR")
    BY <1>5 DEF CallFails, CallTimesOut, Ends
  <2> QED
    BY <2>1
<1>6. ASSUME NEW n \in NSE, NEW w \in Worker, ProgramDone(n, w) PROVE PeerChange
  BY <1>6 DEF ProgramDone, Ends
<1>7. ASSUME NEW c \in calls, RxAddPeer(c) PROVE PeerChange
  BY <1>7 DEF RxAddPeer, Enters
<1>8. ASSUME NEW k \in conns, Redeliver(k) PROVE PeerChange
  BY <1>8 DEF Redeliver
<1> QED
  BY <1>1, <1>2, <1>3, <1>4, <1>5, <1>6, <1>7, <1>8, StepKinds
     DEF StepKind, WorkerStep, Discover, Visit, Answer

(* The ranges of what the peer entries and calls are made of.              *)
LEMMA PeerTypes ==
  ASSUME TypeInv
  PROVE  /\ \A n \in NSE, w \in Worker : todo[n][w] \subseteq NSE
         /\ \A n \in NSE, w \in Worker : cur[n][w] \in Name
         /\ \A c \in calls : c.src \in NSE /\ c.dst \in NSE /\ c.label \in Name
         /\ NSE \subseteq Name
  BY DEF TypeInv, TypeOK, Call, Name

(* The state of an entry keeps telling how many requests were sent.        *)
LEMMA CountNext ==
  ASSUME TypeInv, ConnectsUnderPeerLock, AttemptCounted, [Next]_vars
  PROVE  AttemptCounted'
<1> USE DEF AttemptCounted
<1>1. CASE UNCHANGED peerVars
  BY <1>1 DEF peerVars
<1>2. ASSUME NEW n \in NSE, NEW p \in Name, Enters(n, p) PROVE AttemptCounted'
  BY <1>2 DEF Enters, AddedPeer, TypeInv, TypeOK
<1>3. ASSUME NEW n \in NSE, NEW w \in Worker, BeginConnect(n, w)
      PROVE  AttemptCounted'
  <2>1. cur[n][w] \in Name
    BY DEF TypeInv, TypeOK
  <2> QED
    BY <1>3, <2>1 DEF BeginConnect, ConnectFrom, TypeInv, TypeOK
<1>4. ASSUME NEW n \in NSE, NEW w \in Worker, NEW s \in {"CONN", "CONNERR"},
             Ends(n, w, s)
      PROVE  AttemptCounted'
  <2>1. cur[n][w] \in Name /\ state[n][cur[n][w]] = "INPROG"
    BY <1>4, HolderAtEnd DEF Ends
  <2> QED
    BY <1>4, <2>1 DEF Ends, EndVisit, TypeInv, TypeOK
<1>5. ASSUME NEW c \in calls, RxProcess(c) PROVE AttemptCounted'
  <2>1. c.dst \in NSE /\ c.label \in Name
    BY DEF TypeInv, TypeOK, Call
  <2> QED
    BY <1>5, <2>1 DEF RxProcess, Handle, TypeInv, TypeOK
<1> QED
  <2>1. ASSUME NEW n \in NSE, NEW w \in Worker, NEW p \in todo[n][w], Enters(n, p)
        PROVE  AttemptCounted'
    BY <2>1, <1>2, PeerTypes
  <2>2. ASSUME NEW c \in calls, Enters(c.dst, c.label) PROVE AttemptCounted'
    BY <2>2, <1>2, PeerTypes
  <2> QED
    BY <1>1, <1>3, <1>4, <1>5, <2>1, <2>2, PeerStep DEF PeerChange

(* A call somebody waits for stays the one call of that visit.             *)
LEMMA AwaitedNext ==
  ASSUME TypeInv, CallsAwaited, [Next]_vars
  PROVE  CallsAwaited'
<1> USE ConstantsAssumption DEF CallsAwaited, TypeInv
<1>2. ASSUME NEW n \in NSE, Start(n) \/ NscRequestFindFails(n) PROVE CallsAwaited'
  BY <1>2 DEF Start, NscRequestFindFails, workerVars
<1>3. ASSUME NEW n \in NSE, NEW w \in Worker, calls' \subseteq calls,
             \A m \in NSE, v \in Worker :
               m # n \/ v # w => pc'[m][v] = pc[m][v] /\ cur'[m][v] = cur[m][v],
             \A c \in calls' : ~(c.src = n /\ c.by = w)
      PROVE  CallsAwaited'
  <2> SUFFICES ASSUME NEW c \in calls', c.by # None
               PROVE  /\ pc'[c.src][c.by] = "call"
                      /\ cur'[c.src][c.by] = c.dst
                      /\ \A d \in calls' : d.src = c.src /\ d.by = c.by => d = c
    OBVIOUS
  <2>1. c \in calls /\ c.src \in NSE /\ c.by \in Worker
    BY <1>3 DEF TypeOK, Call
  <2>2. c.src # n \/ c.by # w
    BY <1>3
  <2> QED
    BY <1>3, <2>1, <2>2
<1>4. ASSUME NEW n \in NSE, NEW w \in Worker,
             \/ NscRequest(n, w) \/ SkipSelf(n, w) \/ LoopEnds(n, w)
             \/ VisitKnown(n, w) \/ AddPeer(n, w) \/ ProgramDone(n, w)
      PROVE  CallsAwaited'
  <2>1. calls' = calls /\ pc[n][w] # "call"
    BY <1>4 DEF NscRequest, SkipSelf, LoopEnds, VisitKnown, AddPeer, ProgramDone
  <2>2. \A m \in NSE, v \in Worker :
          m # n \/ v # w => pc'[m][v] = pc[m][v] /\ cur'[m][v] = cur[m][v]
    BY <1>4 DEF NscRequest, SkipSelf, LoopEnds, VisitKnown, AddPeer, ProgramDone,
                EndVisit, TypeOK
  <2>3. \A c \in calls' : ~(c.src = n /\ c.by = w)
    BY <2>1
  <2> QED
    BY <2>1, <2>2, <2>3, <1>3
<1>5. ASSUME NEW n \in NSE, NEW w \in Worker, BeginConnect(n, w)
      PROVE  CallsAwaited'
  <2> DEFINE e == [src |-> n, label |-> myName[n], dst |-> cur[n][w],
                   by |-> w, phase |-> "sent"]
  <2>1. calls' = calls \cup {e} /\ e.src = n /\ e.by = w /\ e.dst = cur[n][w]
    BY <1>5 DEF BeginConnect, ConnectFrom
  <2>2. \A c \in calls : ~(c.src = n /\ c.by = w)
    BY <1>5 DEF BeginConnect, ConnectFrom
  <2>3. \A m \in NSE, v \in Worker :
          /\ cur'[m][v] = cur[m][v]
          /\ pc'[m][v] = IF m = n /\ v = w THEN "call" ELSE pc[m][v]
    BY <1>5 DEF BeginConnect, ConnectFrom, TypeOK
  <2> HIDE DEF e
  <2> QED
    BY <2>1, <2>2, <2>3 DEF TypeOK, Call
<1>6. ASSUME NEW n \in NSE, NEW w \in Worker, CallReturns(n, w) \/ CallFails(n, w)
      PROVE  CallsAwaited'
  <2>1. PICK c \in Pending(n, w) : calls' = calls \ {c}
    BY <1>6 DEF CallReturns, CallFails
  <2>2. \A m \in NSE, v \in Worker :
          m # n \/ v # w => pc'[m][v] = pc[m][v] /\ cur'[m][v] = cur[m][v]
    BY <1>6 DEF CallReturns, CallFails, EndVisit, TypeOK
  <2>3. \A d \in calls' : ~(d.src = n /\ d.by = w)
    BY <2>1 DEF Pending
  <2> QED
    BY <2>1, <2>2, <2>3, <1>3
<1>7. ASSUME NEW n \in NSE, NEW w \in Worker, CallTimesOut(n, w)
      PROVE  CallsAwaited'
  <2>1. PICK c \in Pending(n, w) :
          calls' \subseteq (calls \ {c}) \cup {[c EXCEPT !.by = None]}
    BY <1>7 DEF CallTimesOut
  <2> DEFINE e == [c EXCEPT !.by = None]
  <2>2. c \in Call /\ c.src = n /\ c.by = w /\ e.by = None
    BY DEF Pending, TypeOK, Call
  <2>3. \A m \in NSE, v \in Worker :
          m # n \/ v # w => pc'[m][v] = pc[m][v] /\ cur'[m][v] = cur[m][v]
    BY <1>7 DEF CallTimesOut, EndVisit, TypeOK
  <2>4. \A d \in calls \ {c} : ~(d.src = n /\ d.by = w)
    BY <2>2 DEF Pending
  <2>5. \A d \in calls' : d \in calls \ {c} \/ d = e
    BY <2>1
  <2> HIDE DEF e
  <2> SUFFICES ASSUME NEW d \in calls', d.by # None
               PROVE  /\ pc'[d.src][d.by] = "call"
                      /\ cur'[d.src][d.by] = d.dst
                      /\ \A f \in calls' : f.src = d.src /\ f.by = d.by => f = d
    OBVIOUS
  <2>6. d \in calls \ {c} /\ d.src \in NSE /\ d.by \in Worker
    BY <2>2, <2>5 DEF TypeOK, Call
  <2>7. d.src # n \/ d.by # w
    BY <2>4, <2>6
  <2>8. \A f \in calls' : f.src = d.src /\ f.by = d.by => f \in calls
    BY <2>2, <2>5
  <2> QED
    BY <2>3, <2>6, <2>7, <2>8
<1>8. ASSUME NEW c \in calls, NEW e,
             e.src = c.src, e.by = c.by, e.dst = c.dst,
             calls' \subseteq (calls \ {c}) \cup {e}, UNCHANGED workerVars
      PROVE  CallsAwaited'
  BY <1>8 DEF workerVars
<1>9. ASSUME NEW c \in calls, RxAddPeer(c) PROVE CallsAwaited'
  <2> DEFINE e == [c EXCEPT !.phase = "added"]
  <2>1. e.src = c.src /\ e.by = c.by /\ e.dst = c.dst
    BY DEF TypeOK, Call
  <2>2. calls' \subseteq (calls \ {c}) \cup {e} /\ UNCHANGED workerVars
    BY <1>9 DEF RxAddPeer
  <2> HIDE DEF e
  <2> QED
    BY <2>1, <2>2, <1>8
<1>10. ASSUME NEW c \in calls, RxProcess(c) PROVE CallsAwaited'
  <2> DEFINE e == [c EXCEPT !.phase = "handled"]
  <2>1. e.src = c.src /\ e.by = c.by /\ e.dst = c.dst
    BY DEF TypeOK, Call
  <2>2. calls' \subseteq (calls \ {c}) \cup {e} /\ UNCHANGED workerVars
    BY <1>10 DEF RxProcess, Handle
  <2> HIDE DEF e
  <2> QED
    BY <2>1, <2>2, <1>8
<1>11. CASE Quiet
  <2>1. CASE calls' \subseteq calls
    BY <1>11, <2>1 DEF Quiet, workerVars
  <2>2. ASSUME NEW c \in calls, NEW a \in {"accepted", "refused"},
               calls' \subseteq (calls \ {c}) \cup {[c EXCEPT !.phase = a]}
        PROVE  CallsAwaited'
    <3> DEFINE e == [c EXCEPT !.phase = a]
    <3>1. e.src = c.src /\ e.by = c.by /\ e.dst = c.dst
      BY DEF TypeOK, Call
    <3>2. calls' \subseteq (calls \ {c}) \cup {e} /\ UNCHANGED workerVars
      BY <1>11, <2>2 DEF Quiet
    <3> HIDE DEF e
    <3> QED
      BY <3>1, <3>2, <1>8
  <2> QED
    BY <1>11, <2>1, <2>2 DEF Quiet
<1>12. ASSUME NEW k \in conns, Redeliver(k) PROVE CallsAwaited'
  BY <1>12 DEF Redeliver, workerVars
<1> QED
  BY <1>2, <1>4, <1>5, <1>6, <1>7, <1>9, <1>10, <1>11, <1>12, StepKinds
     DEF StepKind, WorkerStep, Discover, Visit, Answer

(* The mutex, the count and the calls stay consistent, with or without     *)
(* names stored before requests come.                                      *)
THEOREM CoreInvariant == Spec => []IInv
<1>1. Init => IInv
  <2>1. Init => ConnectsUnderPeerLock
    BY ConstantsAssumption DEF Init, ConnectsUnderPeerLock
  <2>2. Init => AttemptCounted /\ CallsAwaited
    BY DEF Init, AttemptCounted, CallsAwaited
  <2> QED
    BY <2>1, <2>2, TypeInit DEF IInv
<1>2. IInv /\ [Next]_vars => IInv'
  BY TypeNext, LockNext, CountNext, AwaitedNext DEF IInv
<1> QED
  BY <1>1, <1>2, PTL DEF Spec

(* In every behaviour every variable keeps its type.                       *)
THEOREM TypeCorrect == Spec => []TypeOK
<1>1. IInv => TypeOK
  BY DEF IInv, TypeInv
<1> QED
  BY <1>1, CoreInvariant, PTL

(* An entry is in progress exactly while one worker holds its mutex inside *)
(* the attempt, whatever names requests carry and however calls fail.      *)
THEOREM PeerLockExclusive == Spec => []ConnectsUnderPeerLock
<1>1. IInv => ConnectsUnderPeerLock
  BY DEF IInv
<1> QED
  BY <1>1, CoreInvariant, PTL

-----------------------------------------------------------------------------
(* The two ends of a peering, when names are stored before requests come.  *)

(* An entry that is RX stays RX: no attempt is under way at it, so no step *)
(* that ends one reaches it.                                               *)
LEMMA RxStays ==
  ASSUME TypeInv, ConnectsUnderPeerLock, [Next]_vars,
         NEW m \in NSE, NEW q \in Name, state[m][q] = "RX"
  PROVE  state'[m][q] = "RX"
<1>1. ASSUME NEW n \in NSE, NEW p \in Name, Enters(n, p) PROVE state'[m][q] = "RX"
  BY <1>1 DEF Enters, AddedPeer, TypeInv, TypeOK
<1>2. ASSUME NEW n \in NSE, NEW w \in Worker, BeginConnect(n, w)
      PROVE  state'[m][q] = "RX"
  BY <1>2, PeerTypes DEF BeginConnect, ConnectFrom, TypeInv, TypeOK
<1>3. ASSUME NEW n \in NSE, NEW w \in Worker, NEW s \in {"CONN", "CONNERR"},
             Ends(n, w, s)
      PROVE  state'[m][q] = "RX"
  BY <1>3, HolderAtEnd DEF Ends, EndVisit, TypeInv, TypeOK
<1>4. ASSUME NEW c \in calls, RxProcess(c) PROVE state'[m][q] = "RX"
  BY <1>4, PeerTypes DEF RxProcess, Handle, TypeInv, TypeOK
<1> QED
  BY <1>1, <1>2, <1>3, <1>4, PeerStep, PeerTypes DEF PeerChange, peerVars

(* A request that was sent stays counted.                                  *)
LEMMA CountStays ==
  ASSUME TypeInv, AttemptCounted, [Next]_vars,
         NEW m \in NSE, NEW q \in Name, performed[m][q] = 1
  PROVE  performed'[m][q] = 1
<1>1. ASSUME NEW n \in NSE, NEW w \in Worker, BeginConnect(n, w)
      PROVE  performed'[m][q] = 1
  BY <1>1, PeerTypes DEF BeginConnect, ConnectFrom, AttemptCounted, TypeInv, TypeOK
<1> QED
  BY <1>1, PeerStep DEF PeerChange, peerVars, Enters, Ends, EndVisit, RxProcess, Handle

(* Names known before any request stay the names of their endpoints.       *)
LEMMA NamesNext ==
  ASSUME TypeInv, NamesKnown, [Next]_vars
  PROVE  NamesKnown'
<1> USE ConstantsAssumption DEF NamesKnown, TypeInv
<1>1. CASE Quiet
  BY <1>1 DEF Quiet, nameVars, workerVars
<1>2. ASSUME NEW n \in NSE, Start(n) PROVE NamesKnown'
  BY <1>2 DEF Start
<1>3. ASSUME NEW n \in NSE, NEW named \in BOOLEAN, SetMyNseName(n, named)
      PROVE  /\ myName'[n] = n
             /\ \A m \in NSE : m # n => myName'[m] = myName[m]
  BY <1>3 DEF SetMyNseName, TypeOK
<1>4. ASSUME NEW n \in NSE, NscRequestFindFails(n) PROVE NamesKnown'
  BY <1>3, <1>4 DEF NscRequestFindFails, workerVars
<1>5. ASSUME NEW n \in NSE, NEW w \in Worker, NscRequest(n, w) PROVE NamesKnown'
  <2>1. /\ myName'[n] = n
        /\ \A m \in NSE : m # n => myName'[m] = myName[m]
    BY <1>3, <1>5 DEF NscRequest
  <2>2. registered' = registered /\ pc' = [pc EXCEPT ![n][w] = "loop"]
    BY <1>5 DEF NscRequest
  <2> QED
    BY <2>1, <2>2 DEF TypeOK
<1>6. ASSUME NEW n \in NSE, NEW w \in Worker, WorkerStep(n, w) PROVE NamesKnown'
  <2>1. /\ pc[n][w] # "idle"
        /\ UNCHANGED nameVars
        /\ \A m \in NSE, v \in Worker : m # n \/ v # w => pc'[m][v] = pc[m][v]
    BY <1>6 DEF WorkerStep, Discover, Visit, Answer, SkipSelf, AddPeer, LoopEnds,
                VisitKnown, BeginConnect, ConnectFrom, CallReturns, CallFails,
                CallTimesOut, ProgramDone, EndVisit, TypeOK
  <2> QED
    BY <2>1 DEF nameVars
<1>7. ASSUME NEW c \in calls, RxAddPeer(c) \/ RxProcess(c) PROVE NamesKnown'
  BY <1>7 DEF RxAddPeer, RxProcess, Handle, nameVars, workerVars
<1>8. ASSUME NEW k \in conns, Redeliver(k) PROVE NamesKnown'
  BY <1>8 DEF Redeliver, nameVars, workerVars
<1> QED
  BY <1>1, <1>2, <1>4, <1>5, <1>6, <1>7, <1>8, StepKinds DEF StepKind

(* No visit, call or link of an endpoint is to itself.                     *)
LEMMA OthersNext ==
  ASSUME TypeInv, NamesKnown, OthersOnly, CallsAwaited, [Next]_vars
  PROVE  OthersOnly'
<1> USE ConstantsAssumption DEF OthersOnly, TypeInv
<1>2. ASSUME NEW n \in NSE, Start(n) \/ NscRequestFindFails(n) PROVE OthersOnly'
  BY <1>2 DEF Start, NscRequestFindFails, workerVars
<1>3. ASSUME NEW n \in NSE, NEW w \in Worker,
             \/ NscRequest(n, w) \/ SkipSelf(n, w) \/ LoopEnds(n, w)
             \/ VisitKnown(n, w) \/ ProgramDone(n, w)
      PROVE  OthersOnly'
  <2>1. calls' = calls /\ conns' = conns /\ pc'[n][w] \notin Visiting
    BY <1>3 DEF NscRequest, SkipSelf, LoopEnds, VisitKnown, ProgramDone,
                EndVisit, Visiting, TypeOK
  <2>2. \A m \in NSE, v \in Worker :
          m # n \/ v # w => pc'[m][v] = pc[m][v] /\ cur'[m][v] = cur[m][v]
    BY <1>3 DEF NscRequest, SkipSelf, LoopEnds, VisitKnown, ProgramDone,
                EndVisit, TypeOK
  <2> QED
    BY <2>1, <2>2
<1>4. ASSUME NEW n \in NSE, NEW w \in Worker, AddPeer(n, w) PROVE OthersOnly'
  <2>1. PICK p \in todo[n][w] \ {myName[n]} : cur' = [cur EXCEPT ![n][w] = p]
    BY <1>4 DEF AddPeer
  <2>2. p # n /\ p \in NSE
    BY <1>4 DEF AddPeer, NamesKnown, TypeOK
  <2> QED
    BY <1>4, <2>1, <2>2 DEF AddPeer, TypeOK, Visiting
<1>5. ASSUME NEW n \in NSE, NEW w \in Worker, BeginConnect(n, w) PROVE OthersOnly'
  <2> DEFINE e == [src |-> n, label |-> myName[n], dst |-> cur[n][w],
                   by |-> w, phase |-> "sent"]
  <2>1. calls' = calls \cup {e} /\ conns' = conns /\ cur' = cur
    BY <1>5 DEF BeginConnect, ConnectFrom
  <2>2. e.label = e.src /\ e.src # e.dst
    BY <1>5 DEF BeginConnect, ConnectFrom, NamesKnown, Visiting
  <2>3. \A m \in NSE, v \in Worker : pc'[m][v] \in Visiting => pc[m][v] \in Visiting
    BY <1>5 DEF BeginConnect, ConnectFrom, TypeOK, Visiting
  <2> HIDE DEF e
  <2> QED
    BY <2>1, <2>2, <2>3
<1>6. ASSUME NEW n \in NSE, NEW w \in Worker, CallReturns(n, w) PROVE OthersOnly'
  <2>1. PICK c \in Pending(n, w) :
          /\ calls' = calls \ {c}
          /\ conns' = conns \cup {[src |-> n, label |-> c.label, dst |-> c.dst]}
    BY <1>6 DEF CallReturns
  <2> DEFINE k == [src |-> n, label |-> c.label, dst |-> c.dst]
  <2>2. k.label = k.src /\ k.src # k.dst
    BY DEF Pending
  <2>3. cur' = cur /\ \A m \in NSE, v \in Worker :
                         pc'[m][v] \in Visiting => pc[m][v] \in Visiting
    BY <1>6 DEF CallReturns, TypeOK, Visiting
  <2> HIDE DEF k
  <2>4. conns' \subseteq conns \cup {k}
    BY <2>1 DEF k
  <2> QED
    BY <2>1, <2>2, <2>3, <2>4
<1>7. ASSUME NEW n \in NSE, NEW w \in Worker, CallFails(n, w) \/ CallTimesOut(n, w)
      PROVE  OthersOnly'
  <2>1. PICK c \in Pending(n, w) :
          calls' \subseteq (calls \ {c}) \cup {[c EXCEPT !.by = None]}
    BY <1>7 DEF CallFails, CallTimesOut
  <2> DEFINE e == [c EXCEPT !.by = None]
  <2>2. e.src = c.src /\ e.label = c.label /\ e.dst = c.dst /\ c \in calls
    BY DEF Pending, TypeOK, Call
  <2>3. /\ conns' = conns /\ pc'[n][w] \notin Visiting
        /\ \A m \in NSE, v \in Worker :
             m # n \/ v # w => pc'[m][v] = pc[m][v] /\ cur'[m][v] = cur[m][v]
    BY <1>7 DEF CallFails, CallTimesOut, EndVisit, TypeOK, Visiting
  <2> HIDE DEF e
  <2>4. \A d \in calls' : d \in calls \/ d = e
    BY <2>1 DEF e
  <2> QED
    BY <2>2, <2>3, <2>4
<1>8. ASSUME NEW c \in calls, NEW e,
             e.src = c.src, e.label = c.label, e.dst = c.dst,
             calls' \subseteq (calls \ {c}) \cup {e}, conns' \subseteq conns,
             UNCHANGED workerVars
      PROVE  OthersOnly'
  BY <1>8 DEF workerVars
<1>9. ASSUME NEW c \in calls, RxAddPeer(c) PROVE OthersOnly'
  <2> DEFINE e == [c EXCEPT !.phase = "added"]
  <2>1. e.src = c.src /\ e.label = c.label /\ e.dst = c.dst
    BY DEF TypeOK, Call
  <2>2. /\ calls' \subseteq (calls \ {c}) \cup {e} /\ conns' = conns
        /\ UNCHANGED workerVars
    BY <1>9 DEF RxAddPeer
  <2> HIDE DEF e
  <2> QED
    BY <2>1, <2>2, <1>8
<1>10. ASSUME NEW c \in calls, RxProcess(c) PROVE OthersOnly'
  <2> DEFINE e == [c EXCEPT !.phase = "handled"]
  <2>1. e.src = c.src /\ e.label = c.label /\ e.dst = c.dst
    BY DEF TypeOK, Call
  <2>2. /\ calls' \subseteq (calls \ {c}) \cup {e} /\ conns' \subseteq conns
        /\ UNCHANGED workerVars
    BY <1>10 DEF RxProcess, Handle
  <2> HIDE DEF e
  <2> QED
    BY <2>1, <2>2, <1>8
<1>11. CASE Quiet
  <2>1. CASE calls' \subseteq calls
    BY <1>11, <2>1 DEF Quiet, workerVars
  <2>2. ASSUME NEW c \in calls, NEW a \in {"accepted", "refused"},
               calls' \subseteq (calls \ {c}) \cup {[c EXCEPT !.phase = a]}
        PROVE  OthersOnly'
    <3> DEFINE e == [c EXCEPT !.phase = a]
    <3>1. e.src = c.src /\ e.label = c.label /\ e.dst = c.dst
      BY DEF TypeOK, Call
    <3>2. /\ calls' \subseteq (calls \ {c}) \cup {e} /\ conns' \subseteq conns
          /\ UNCHANGED workerVars
      BY <1>11, <2>2 DEF Quiet
    <3> HIDE DEF e
    <3> QED
      BY <3>1, <3>2, <1>8
  <2> QED
    BY <1>11, <2>1, <2>2 DEF Quiet
<1>12. ASSUME NEW k \in conns, Redeliver(k) PROVE OthersOnly'
  BY <1>12 DEF Redeliver, workerVars
<1> QED
  BY <1>2, <1>3, <1>4, <1>5, <1>6, <1>7, <1>9, <1>10, <1>11, <1>12, StepKinds
     DEF StepKind, WorkerStep, Discover, Visit, Answer

(* Every step keeps the trace an attempt leaves at the other end.          *)
LEMMA TracedNext ==
  ASSUME IInv, OthersOnly, CallsTraced, [Next]_vars
  PROVE  CallsTraced'
<1> USE ConstantsAssumption DEF CallsTraced, IInv, Decided
<1>1. \A m \in NSE, q \in Name :
        /\ state[m][q] = "RX" => state'[m][q] = "RX"
        /\ performed[m][q] = 1 => performed'[m][q] = 1
  BY RxStays, CountStays
<1>2. /\ \A c \in calls : c \in Call
      /\ \A k \in conns : k.src \in NSE /\ k.dst \in NSE /\ k.label \in Name
      /\ \A n \in NSE, w \in Worker : pc[n][w] = "program" => cur[n][w] \in NSE
      /\ NSE \subseteq Name
  BY DEF TypeInv, TypeOK, Conn, VisitsPeers, Visiting, Name
<1>3. \A c \in calls : c.src \in NSE /\ c.dst \in NSE /\ c.label \in Name
  BY PeerTypes
(* A step that adds no answered call, no link and no programming worker.   *)
<1>4. ASSUME \A c \in calls' : \/ c \in calls
                               \/ /\ c.src \in NSE /\ c.dst \in NSE
                                  /\ performed'[c.src][c.dst] = 1
                                  /\ \/ c.phase \notin Decided
                                     \/ state'[c.dst][c.label] = "RX",
             conns' \subseteq conns,
             \A n \in NSE, w \in Worker :
               pc'[n][w] = "program" => pc[n][w] = "program" /\ cur'[n][w] = cur[n][w]
      PROVE  CallsTraced'
  BY <1>1, <1>2, <1>3, <1>4
<1>5. CASE Quiet
  <2>1. /\ conns' \subseteq conns
        /\ \A n \in NSE, w \in Worker : pc'[n][w] = pc[n][w] /\ cur'[n][w] = cur[n][w]
    BY <1>5 DEF Quiet, workerVars
  <2>2. CASE calls' \subseteq calls
    BY <2>1, <2>2, <1>4
  <2>3. ASSUME NEW c \in calls, NEW a \in {"accepted", "refused"},
               c.phase = "handled",
               calls' \subseteq (calls \ {c}) \cup {[c EXCEPT !.phase = a]}
        PROVE  CallsTraced'
    <3> DEFINE e == [c EXCEPT !.phase = a]
    <3>1. e.src = c.src /\ e.dst = c.dst /\ e.label = c.label
      BY <1>2 DEF Call
    <3>2. \A d \in calls' : d \in calls \/ d = e
      BY <2>3
    <3>3. performed'[c.src][c.dst] = 1 /\ state'[c.dst][c.label] = "RX"
      BY <2>3, <1>1, <1>2, <1>3
    <3> HIDE DEF e
    <3> QED
      BY <2>1, <3>1, <3>2, <3>3, <1>3, <1>4
  <2> QED
    BY <1>5, <2>2, <2>3 DEF Quiet
<1>6. ASSUME NEW n \in NSE, Start(n) \/ NscRequestFindFails(n) PROVE CallsTraced'
  BY <1>6 DEF Start, NscRequestFindFails, peerVars, workerVars
<1>7. ASSUME NEW n \in NSE, NEW w \in Worker,
             \/ NscRequest(n, w) \/ SkipSelf(n, w) \/ LoopEnds(n, w) \/ AddPeer(n, w)
             \/ VisitKnown(n, w) \/ ProgramDone(n, w)
      PROVE  CallsTraced'
  <2>1. calls' = calls /\ conns' = conns
    BY <1>7 DEF NscRequest, SkipSelf, LoopEnds, AddPeer, VisitKnown, ProgramDone
  <2>2. \A m \in NSE, v \in Worker :
          m # n \/ v # w => pc'[m][v] = pc[m][v] /\ cur'[m][v] = cur[m][v]
    BY <1>7 DEF NscRequest, SkipSelf, LoopEnds, AddPeer, VisitKnown, ProgramDone,
                EndVisit, TypeInv, TypeOK
  <2>3. pc'[n][w] # "program"
    BY <1>7 DEF NscRequest, SkipSelf, LoopEnds, AddPeer, VisitKnown, ProgramDone,
                EndVisit, TypeInv, TypeOK
  <2> QED
    BY <2>1, <2>2, <2>3, <1>4
<1>8. ASSUME NEW n \in NSE, NEW w \in Worker, BeginConnect(n, w) PROVE CallsTraced'
  <2> DEFINE e == [src |-> n, label |-> myName[n], dst |-> cur[n][w],
                   by |-> w, phase |-> "sent"]
  <2> USE <1>8 DEF BeginConnect, ConnectFrom
  <2>1. calls' = calls \cup {e} /\ conns' = conns /\ cur' = cur
    OBVIOUS
  <2>2. cur[n][w] \in NSE /\ cur[n][w] \in Name
    BY PeerTypes DEF TypeInv, VisitsPeers, Visiting
  <2>3. performed[n][cur[n][w]] = 0
    BY <2>2 DEF AttemptCounted
  <2>4. performed'[n][cur[n][w]] = 1
    BY <2>2, <2>3 DEF TypeInv, TypeOK
  <2>5. /\ e.src = n /\ e.dst = cur[n][w]
        /\ e.phase \notin Decided
    OBVIOUS
  <2>6. \A m \in NSE, v \in Worker : pc'[m][v] = "program" => pc[m][v] = "program"
    BY DEF TypeInv, TypeOK
  <2> HIDE DEF e, BeginConnect
  <2> QED
    BY <2>1, <2>2, <2>4, <2>5, <2>6, <1>4
<1>9. ASSUME NEW n \in NSE, NEW w \in Worker, CallReturns(n, w) PROVE CallsTraced'
  <2>1. PICK c \in Pending(n, w) :
          /\ c.phase = "accepted"
          /\ calls' = calls \ {c}
          /\ conns' = conns \cup {[src |-> n, label |-> c.label, dst |-> c.dst]}
    BY <1>9 DEF CallReturns
  <2> DEFINE k == [src |-> n, label |-> c.label, dst |-> c.dst]
  <2>2. /\ c \in calls /\ c.src = n /\ c.by = w /\ w # None
        /\ c.dst = cur[n][w] /\ c.label = n
    BY DEF Pending, CallsAwaited, OthersOnly
  <2>3. state[c.dst][c.label] = "RX" /\ performed[n][c.dst] = 1
    BY <2>1, <2>2
  <2>4. UNCHANGED <<state, performed, cur>>
    BY <1>9 DEF CallReturns, peerVars
  <2>5. \A m \in NSE, v \in Worker :
          pc'[m][v] = "program" => pc[m][v] = "program" \/ (m = n /\ v = w)
    BY <1>9 DEF CallReturns, TypeInv, TypeOK
  <2>6. k.src = n /\ k.label = c.label /\ k.dst = c.dst
    OBVIOUS
  <2>7. \A l \in conns' : l \in conns \/ l = k
    BY <2>1
  <2> HIDE DEF k
  <2> QED
    BY <2>1, <2>2, <2>3, <2>4, <2>5, <2>6, <2>7
<1>10. ASSUME NEW n \in NSE, NEW w \in Worker, CallFails(n, w) \/ CallTimesOut(n, w)
       PROVE  CallsTraced'
  <2>1. PICK c \in Pending(n, w) :
          calls' \subseteq (calls \ {c}) \cup {[c EXCEPT !.by = None]}
    BY <1>10 DEF CallFails, CallTimesOut
  <2> DEFINE e == [c EXCEPT !.by = None]
  <2>2. /\ c \in calls /\ e.src = c.src /\ e.label = c.label /\ e.dst = c.dst
        /\ e.phase = c.phase
    BY <1>2 DEF Pending, Call
  <2>3. /\ conns' = conns /\ pc'[n][w] # "program"
        /\ \A m \in NSE, v \in Worker :
             m # n \/ v # w => pc'[m][v] = pc[m][v] /\ cur'[m][v] = cur[m][v]
    BY <1>10 DEF CallFails, CallTimesOut, EndVisit, TypeInv, TypeOK
  <2>4. \A d \in calls' : d \in calls \/ d = e
    BY <2>1
  <2> HIDE DEF e
  <2>5. /\ performed'[e.src][e.dst] = 1 /\ e.src \in NSE /\ e.dst \in NSE
        /\ e.phase \in Decided => state'[e.dst][e.label] = "RX"
    BY <2>2, <1>1, <1>2, <1>3
  <2> QED
    BY <2>3, <2>4, <2>5, <1>4
<1>11. ASSUME NEW c \in calls, RxAddPeer(c) PROVE CallsTraced'
  <2> DEFINE e == [c EXCEPT !.phase = "added"]
  <2>1. /\ e.src = c.src /\ e.dst = c.dst
        /\ e.phase \notin Decided
    BY <1>2 DEF Call
  <2>2. /\ calls' = (calls \ {c}) \cup {e} /\ conns' = conns
        /\ pc' = pc /\ cur' = cur
    BY <1>11 DEF RxAddPeer, workerVars
  <2>3. performed'[c.src][c.dst] = 1
    BY <1>1, <1>2, <1>3
  <2> HIDE DEF e
  <2> QED
    BY <2>1, <2>2, <2>3, <1>3, <1>4
<1>12. ASSUME NEW c \in calls, RxProcess(c) PROVE CallsTraced'
  <2> DEFINE e == [c EXCEPT !.phase = "handled"]
  <2>1. e.src = c.src /\ e.dst = c.dst /\ e.label = c.label
    BY <1>2 DEF Call
  <2>2. /\ calls' \subseteq (calls \ {c}) \cup {e} /\ conns' = conns
        /\ pc' = pc /\ cur' = cur
    BY <1>12 DEF RxProcess, Handle, workerVars
  <2>3. performed'[c.src][c.dst] = 1 /\ state'[c.dst][c.label] = "RX"
    BY <1>1, <1>2, <1>3, <1>12 DEF RxProcess, Handle, TypeInv, TypeOK
  <2> HIDE DEF e
  <2> QED
    BY <2>1, <2>2, <2>3, <1>3, <1>4
<1>14. ASSUME NEW k \in conns, Redeliver(k) PROVE CallsTraced'
  <2> DEFINE e == [src |-> k.src, label |-> k.label, dst |-> k.dst,
                   by |-> None, phase |-> "sent"]
  <2>1. /\ e.src = k.src /\ e.dst = k.dst
        /\ e.phase \notin Decided
    OBVIOUS
  <2>2. /\ calls' = calls \cup {e} /\ conns' = conns /\ pc' = pc /\ cur' = cur
    BY <1>14 DEF Redeliver, workerVars
  <2>3. performed'[k.src][k.dst] = 1
    BY <1>1, <1>2
  <2> HIDE DEF e
  <2> QED
    BY <2>1, <2>2, <2>3, <1>2, <1>4
<1> QED
  BY <1>5, <1>6, <1>7, <1>8, <1>9, <1>10, <1>11, <1>12, <1>14, StepKinds
     DEF StepKind, WorkerStep, Discover, Visit, Answer

(* No step makes an entry CONN whose other end is not RX, or undoes RX.    *)
LEMMA AgreedNext ==
  ASSUME IInv, CallsTraced, ConnAgreed, [Next]_vars
  PROVE  ConnAgreed'
<1> USE DEF IInv, ConnAgreed
<1> SUFFICES ASSUME NEW m \in NSE, NEW q \in NSE, state'[m][q] = "CONN"
             PROVE  state'[q][m] = "RX"
  OBVIOUS
<1>1. state[m][q] = "CONN" \/ state[q][m] = "RX"
  <2>1. ASSUME NEW n \in NSE, NEW p \in Name, Enters(n, p)
        PROVE  state[m][q] = "CONN"
    BY <2>1, PeerTypes DEF Enters, AddedPeer, TypeInv, TypeOK
  <2>2. ASSUME NEW n \in NSE, NEW w \in Worker, BeginConnect(n, w)
        PROVE  state[m][q] = "CONN"
    BY <2>2, PeerTypes DEF BeginConnect, ConnectFrom, TypeInv, TypeOK
  <2>3. ASSUME NEW n \in NSE, NEW w \in Worker, NEW s \in {"CONN", "CONNERR"},
               Ends(n, w, s)
        PROVE  state[m][q] = "CONN" \/ state[q][m] = "RX"
    <3>1. CASE m = n /\ q = cur[n][w]
      BY <2>3, <3>1, PeerTypes DEF Ends, EndVisit, CallsTraced, TypeInv, TypeOK
    <3>2. CASE ~(m = n /\ q = cur[n][w])
      BY <2>3, <3>2, PeerTypes DEF Ends, EndVisit, TypeInv, TypeOK
    <3> QED
      BY <3>1, <3>2
  <2>4. ASSUME NEW c \in calls, RxProcess(c) PROVE state[m][q] = "CONN"
    BY <2>4, PeerTypes DEF RxProcess, Handle, TypeInv, TypeOK
  <2> QED
    BY <2>1, <2>2, <2>3, <2>4, PeerStep, PeerTypes DEF PeerChange, peerVars
<1> QED
  BY <1>1, RxStays, PeerTypes

(* No step creates an entry of an endpoint for itself.                     *)
LEMMA SelfNext ==
  ASSUME IInv, NamesKnown, OthersOnly, NoSelfPeering, [Next]_vars
  PROVE  NoSelfPeering'
<1> USE DEF IInv, NoSelfPeering, TypeInv
<1> SUFFICES ASSUME NEW m \in NSE PROVE state'[m][m] = "ABSENT"
  OBVIOUS
<1>1. ASSUME NEW n \in NSE, NEW p \in Name, p # n, Enters(n, p)
      PROVE  state'[m][m] = "ABSENT"
  BY <1>1 DEF Enters, AddedPeer, TypeOK
<1>2. ASSUME NEW n \in NSE, NEW w \in Worker, NEW p \in todo[n][w] \ {myName[n]},
             pc[n][w] = "loop", Enters(n, p)
      PROVE  state'[m][m] = "ABSENT"
  <2>1. p # n
    BY <1>2 DEF NamesKnown
  <2> QED
    BY <1>1, <1>2, <2>1, PeerTypes
<1>3. ASSUME NEW c \in calls, Enters(c.dst, c.label) PROVE state'[m][m] = "ABSENT"
  BY <1>1, <1>3, PeerTypes DEF OthersOnly
<1>4. ASSUME NEW n \in NSE, NEW w \in Worker, BeginConnect(n, w)
      PROVE  state'[m][m] = "ABSENT"
  <2>1. cur[n][w] # n /\ cur[n][w] \in Name
    BY <1>4, PeerTypes DEF OthersOnly, Visiting, BeginConnect, ConnectFrom
  <2> QED
    BY <1>4, <2>1 DEF BeginConnect, ConnectFrom, TypeOK
<1>5. ASSUME NEW n \in NSE, NEW w \in Worker, NEW s \in {"CONN", "CONNERR"},
             Ends(n, w, s)
      PROVE  state'[m][m] = "ABSENT"
  <2>1. cur[n][w] # n /\ cur[n][w] \in Name
    BY <1>5, PeerTypes DEF OthersOnly, Visiting, Ends
  <2> QED
    BY <1>5, <2>1 DEF Ends, EndVisit, TypeOK
<1>6. ASSUME NEW c \in calls, RxProcess(c) PROVE state'[m][m] = "ABSENT"
  BY <1>6, PeerTypes DEF OthersOnly, RxProcess, Handle, TypeOK
<1> QED
  BY <1>2, <1>3, <1>4, <1>5, <1>6, PeerStep DEF PeerChange, peerVars

(* When names are stored first, the two ends of every link agree: the      *)
(* inductive invariant behind the theorems that follow.                    *)
THEOREM NamedInvariant ==
  ASSUME Early = NSE
  PROVE  Spec => []NInv
<1>1. Init => NInv
  <2>1. Init => IInv
    <3>1. Init => ConnectsUnderPeerLock
      BY ConstantsAssumption DEF Init, ConnectsUnderPeerLock
    <3>2. Init => AttemptCounted /\ CallsAwaited
      BY DEF Init, AttemptCounted, CallsAwaited
    <3> QED
      BY <3>1, <3>2, TypeInit DEF IInv
  <2>2. Init => NamesKnown /\ OthersOnly /\ CallsTraced
    <3>1. Init => \A n \in NSE : registered[n]
      BY DEF Init
    <3>2. ASSUME myName = [n \in NSE |-> NoName],
                 pc = [n \in NSE |-> [w \in Worker |-> "idle"]],
                 \A n \in NSE : registered[n]
          PROVE  NamesKnown
      BY <3>2 DEF NamesKnown
    <3>3. Init => NamesKnown
      BY <3>1, <3>2 DEF Init
    <3> QED
      BY <3>3 DEF Init, OthersOnly, CallsTraced, Visiting
  <2>3. Init => ConnAgreed /\ NoSelfPeering
    BY DEF Init, ConnAgreed, NoSelfPeering, Name
  <2> QED
    BY <2>1, <2>2, <2>3 DEF NInv
<1>2. NInv /\ [Next]_vars => NInv'
  BY TypeNext, LockNext, CountNext, AwaitedNext, NamesNext, OthersNext, TracedNext,
     AgreedNext, SelfNext
     DEF NInv, IInv
<1> QED
  BY <1>1, <1>2, PTL DEF Spec

(* Whoever counts a peer as connected is held as a peer by it.             *)
THEOREM EndsAgree ==
  ASSUME Early = NSE
  PROVE  Spec => []ConnAgreed
<1>1. NInv => ConnAgreed
  BY DEF NInv
<1> QED
  BY <1>1, NamedInvariant, PTL

-----------------------------------------------------------------------------
(* A connected peer holds the caller, whenever names are stored.           *)

(* Every label stays the caller's own name or the empty one.               *)
LEMMA LabelsNext ==
  ASSUME TypeInv, LabelsOwn, [Next]_vars
  PROVE  LabelsOwn'
<1> USE DEF LabelsOwn, TypeInv
<1>1. ASSUME NEW n \in NSE, NEW named \in BOOLEAN, SetMyNseName(n, named)
      PROVE  \A m \in NSE : myName'[m] \in {m, NoName}
  BY <1>1 DEF SetMyNseName, TypeOK
<1>2. CASE Quiet
  <2>1. conns' \subseteq conns /\ myName' = myName
    BY <1>2 DEF Quiet, nameVars
  <2>2. CASE calls' \subseteq calls
    BY <2>1, <2>2
  <2>3. ASSUME NEW c \in calls, NEW a \in {"accepted", "refused"},
               calls' \subseteq (calls \ {c}) \cup {[c EXCEPT !.phase = a]}
        PROVE  LabelsOwn'
    <3> DEFINE e == [c EXCEPT !.phase = a]
    <3>1. e.src = c.src /\ e.label = c.label
      BY DEF TypeOK, Call
    <3>2. \A d \in calls' : d \in calls \/ d = e
      BY <2>3
    <3> HIDE DEF e
    <3> QED
      BY <2>1, <3>1, <3>2
  <2> QED
    BY <1>2, <2>2, <2>3 DEF Quiet
<1>3. ASSUME NEW n \in NSE, Start(n) PROVE LabelsOwn'
  BY <1>3 DEF Start
<1>4. ASSUME NEW n \in NSE, NscRequestFindFails(n) PROVE LabelsOwn'
  BY <1>1, <1>4 DEF NscRequestFindFails
<1>5. ASSUME NEW n \in NSE, NEW w \in Worker, NscRequest(n, w) PROVE LabelsOwn'
  BY <1>1, <1>5 DEF NscRequest
<1>6. ASSUME NEW n \in NSE, NEW w \in Worker,
             \/ SkipSelf(n, w) \/ LoopEnds(n, w) \/ AddPeer(n, w)
             \/ VisitKnown(n, w) \/ ProgramDone(n, w)
      PROVE  LabelsOwn'
  BY <1>6 DEF SkipSelf, LoopEnds, AddPeer, VisitKnown, ProgramDone, EndVisit, nameVars
<1>7. ASSUME NEW e, e.label \in {e.src, NoName}, \A c \in calls' : c \in calls \/ c = e,
             conns' \subseteq conns, myName' = myName
      PROVE  LabelsOwn'
  BY <1>7
<1>8. ASSUME NEW n \in NSE, NEW w \in Worker, BeginConnect(n, w) PROVE LabelsOwn'
  <2> DEFINE e == [src |-> n, label |-> myName[n], dst |-> cur[n][w],
                   by |-> w, phase |-> "sent"]
  <2>1. /\ calls' = calls \cup {e} /\ conns' = conns /\ myName' = myName
        /\ e.label = myName[n] /\ e.src = n
    BY <1>8 DEF BeginConnect, ConnectFrom, nameVars
  <2> HIDE DEF e
  <2> QED
    BY <2>1, <1>7
<1>9. ASSUME NEW n \in NSE, NEW w \in Worker, CallReturns(n, w) PROVE LabelsOwn'
  <2>1. PICK c \in Pending(n, w) :
          /\ calls' = calls \ {c}
          /\ conns' = conns \cup {[src |-> n, label |-> c.label, dst |-> c.dst]}
    BY <1>9 DEF CallReturns
  <2> DEFINE k == [src |-> n, label |-> c.label, dst |-> c.dst]
  <2>2. k.label \in {k.src, NoName} /\ myName' = myName
    BY <1>9 DEF Pending, CallReturns, nameVars
  <2>3. \A l \in conns' : l \in conns \/ l = k
    BY <2>1
  <2> HIDE DEF k
  <2> QED
    BY <2>1, <2>2, <2>3
<1>10. ASSUME NEW n \in NSE, NEW w \in Worker, CallFails(n, w) \/ CallTimesOut(n, w)
       PROVE  LabelsOwn'
  <2>1. PICK c \in Pending(n, w) :
          calls' \subseteq (calls \ {c}) \cup {[c EXCEPT !.by = None]}
    BY <1>10 DEF CallFails, CallTimesOut
  <2> DEFINE e == [c EXCEPT !.by = None]
  <2>2. e.src = c.src /\ e.label = c.label /\ c \in calls
    BY DEF Pending, TypeOK, Call
  <2>3. conns' = conns /\ myName' = myName
    BY <1>10 DEF CallFails, CallTimesOut, EndVisit, nameVars
  <2>4. \A d \in calls' : d \in calls \/ d = e
    BY <2>1
  <2> HIDE DEF e
  <2> QED
    BY <2>2, <2>3, <2>4, <1>7
<1>11. ASSUME NEW c \in calls, RxAddPeer(c) PROVE LabelsOwn'
  <2> DEFINE e == [c EXCEPT !.phase = "added"]
  <2>1. e.src = c.src /\ e.label = c.label
    BY DEF TypeOK, Call
  <2>2. calls' = (calls \ {c}) \cup {e} /\ conns' = conns /\ myName' = myName
    BY <1>11 DEF RxAddPeer, nameVars
  <2> HIDE DEF e
  <2> QED
    BY <2>1, <2>2, <1>7
<1>12. ASSUME NEW c \in calls, RxProcess(c) PROVE LabelsOwn'
  <2> DEFINE e == [c EXCEPT !.phase = "handled"]
  <2>1. e.src = c.src /\ e.label = c.label
    BY DEF TypeOK, Call
  <2>2. conns' = conns /\ myName' = myName /\ \A d \in calls' : d \in calls \/ d = e
    BY <1>12 DEF RxProcess, Handle, nameVars
  <2> HIDE DEF e
  <2> QED
    BY <2>1, <2>2, <1>7
<1>14. ASSUME NEW k \in conns, Redeliver(k) PROVE LabelsOwn'
  <2> DEFINE e == [src |-> k.src, label |-> k.label, dst |-> k.dst,
                   by |-> None, phase |-> "sent"]
  <2>1. /\ e.src = k.src /\ e.label = k.label
        /\ calls' = calls \cup {e} /\ conns' = conns /\ myName' = myName
    BY <1>14 DEF Redeliver, nameVars
  <2> HIDE DEF e
  <2> QED
    BY <2>1, <1>7
<1> QED
  BY <1>2, <1>3, <1>4, <1>5, <1>6, <1>8, <1>9, <1>10, <1>11, <1>12, <1>14,
     StepKinds
     DEF StepKind, WorkerStep, Discover, Visit, Answer

(* Every step keeps an answered caller held under the label it sent.       *)
LEMMA AnswersNext ==
  ASSUME IInv, LabelsOwn, AnswersHeld, [Next]_vars
  PROVE  AnswersHeld'
<1> USE ConstantsAssumption DEF AnswersHeld, IInv, Decided
<1>1. \A m \in NSE, q \in Name : state[m][q] = "RX" => state'[m][q] = "RX"
  BY RxStays
<1>2. /\ \A c \in calls : c \in Call
      /\ \A n \in NSE, w \in Worker : pc[n][w] = "program" => cur[n][w] \in NSE
      /\ \A n \in NSE : n \in Name /\ NoName \in Name
  BY DEF TypeInv, TypeOK, VisitsPeers, Visiting, Name
<1>3. \A c \in calls : c.src \in NSE /\ c.dst \in NSE /\ c.label \in Name
  BY PeerTypes
(* A step that adds no answered call and no programming worker.            *)
<1>4. ASSUME \A c \in calls' : \/ c \in calls
                               \/ c.phase \notin Decided
                               \/ state'[c.dst][c.label] = "RX",
             \A n \in NSE, w \in Worker :
               pc'[n][w] = "program" => pc[n][w] = "program" /\ cur'[n][w] = cur[n][w]
      PROVE  AnswersHeld'
  BY <1>1, <1>2, <1>3, <1>4
<1>5. CASE Quiet
  <2>1. \A n \in NSE, w \in Worker : pc'[n][w] = pc[n][w] /\ cur'[n][w] = cur[n][w]
    BY <1>5 DEF Quiet, workerVars
  <2>2. CASE calls' \subseteq calls
    BY <2>1, <2>2, <1>4
  <2>3. ASSUME NEW c \in calls, NEW a \in {"accepted", "refused"},
               c.phase = "handled",
               calls' \subseteq (calls \ {c}) \cup {[c EXCEPT !.phase = a]}
        PROVE  AnswersHeld'
    <3> DEFINE e == [c EXCEPT !.phase = a]
    <3>1. e.dst = c.dst /\ e.label = c.label
      BY <1>2 DEF Call
    <3>2. \A d \in calls' : d \in calls \/ d = e
      BY <2>3
    <3>3. state'[c.dst][c.label] = "RX"
      BY <2>3, <1>1, <1>3
    <3> HIDE DEF e
    <3> QED
      BY <2>1, <3>1, <3>2, <3>3, <1>4
  <2> QED
    BY <1>5, <2>2, <2>3 DEF Quiet
<1>6. ASSUME NEW n \in NSE, Start(n) \/ NscRequestFindFails(n) PROVE AnswersHeld'
  BY <1>6 DEF Start, NscRequestFindFails, peerVars, workerVars
<1>7. ASSUME NEW n \in NSE, NEW w \in Worker,
             \/ NscRequest(n, w) \/ SkipSelf(n, w) \/ LoopEnds(n, w) \/ AddPeer(n, w)
             \/ VisitKnown(n, w) \/ ProgramDone(n, w)
      PROVE  AnswersHeld'
  <2>1. calls' = calls
    BY <1>7 DEF NscRequest, SkipSelf, LoopEnds, AddPeer, VisitKnown, ProgramDone
  <2>2. \A m \in NSE, v \in Worker :
          m # n \/ v # w => pc'[m][v] = pc[m][v] /\ cur'[m][v] = cur[m][v]
    BY <1>7 DEF NscRequest, SkipSelf, LoopEnds, AddPeer, VisitKnown, ProgramDone,
                EndVisit, TypeInv, TypeOK
  <2>3. pc'[n][w] # "program"
    BY <1>7 DEF NscRequest, SkipSelf, LoopEnds, AddPeer, VisitKnown, ProgramDone,
                EndVisit, TypeInv, TypeOK
  <2> QED
    BY <2>1, <2>2, <2>3, <1>4
<1>8. ASSUME NEW n \in NSE, NEW w \in Worker, BeginConnect(n, w) PROVE AnswersHeld'
  <2> DEFINE e == [src |-> n, label |-> myName[n], dst |-> cur[n][w],
                   by |-> w, phase |-> "sent"]
  <2>1. calls' = calls \cup {e} /\ cur' = cur /\ e.phase = "sent"
    BY <1>8 DEF BeginConnect, ConnectFrom
  <2>2. \A m \in NSE, v \in Worker : pc'[m][v] = "program" => pc[m][v] = "program"
    BY <1>8 DEF BeginConnect, ConnectFrom, TypeInv, TypeOK
  <2> HIDE DEF e
  <2> QED
    BY <2>1, <2>2, <1>4
<1>9. ASSUME NEW n \in NSE, NEW w \in Worker, CallReturns(n, w) PROVE AnswersHeld'
  <2>1. PICK c \in Pending(n, w) : c.phase = "accepted" /\ calls' = calls \ {c}
    BY <1>9 DEF CallReturns
  <2>2. /\ c \in calls /\ c.src = n /\ c.by = w /\ w # None
        /\ c.dst = cur[n][w] /\ c.label \in {n, NoName}
    BY DEF Pending, CallsAwaited, LabelsOwn
  <2>3. state[cur[n][w]][c.label] = "RX"
    BY <2>1, <2>2
  <2>4. UNCHANGED <<state, cur>>
    BY <1>9 DEF CallReturns, peerVars
  <2>5. \A m \in NSE, v \in Worker :
          pc'[m][v] = "program" => pc[m][v] = "program" \/ (m = n /\ v = w)
    BY <1>9 DEF CallReturns, TypeInv, TypeOK
  <2> QED
    BY <2>1, <2>2, <2>3, <2>4, <2>5
<1>10. ASSUME NEW n \in NSE, NEW w \in Worker, CallFails(n, w) \/ CallTimesOut(n, w)
       PROVE  AnswersHeld'
  <2>1. PICK c \in Pending(n, w) :
          calls' \subseteq (calls \ {c}) \cup {[c EXCEPT !.by = None]}
    BY <1>10 DEF CallFails, CallTimesOut
  <2> DEFINE e == [c EXCEPT !.by = None]
  <2>2. /\ c \in calls /\ e.label = c.label /\ e.dst = c.dst /\ e.phase = c.phase
    BY <1>2 DEF Pending, Call
  <2>3. /\ pc'[n][w] # "program"
        /\ \A m \in NSE, v \in Worker :
             m # n \/ v # w => pc'[m][v] = pc[m][v] /\ cur'[m][v] = cur[m][v]
    BY <1>10 DEF CallFails, CallTimesOut, EndVisit, TypeInv, TypeOK
  <2>4. \A d \in calls' : d \in calls \/ d = e
    BY <2>1
  <2> HIDE DEF e
  <2>5. e.phase \in Decided => state'[e.dst][e.label] = "RX"
    BY <2>2, <1>1, <1>3
  <2> QED
    BY <2>3, <2>4, <2>5, <1>4
<1>11. ASSUME NEW c \in calls, RxAddPeer(c) PROVE AnswersHeld'
  <2> DEFINE e == [c EXCEPT !.phase = "added"]
  <2>1. e.phase = "added"
    BY <1>2 DEF Call
  <2>2. calls' = (calls \ {c}) \cup {e} /\ pc' = pc /\ cur' = cur
    BY <1>11 DEF RxAddPeer, workerVars
  <2> HIDE DEF e
  <2> QED
    BY <2>1, <2>2, <1>4
<1>12. ASSUME NEW c \in calls, RxProcess(c) PROVE AnswersHeld'
  <2> DEFINE e == [c EXCEPT !.phase = "handled"]
  <2>1. e.dst = c.dst /\ e.label = c.label
    BY <1>2 DEF Call
  <2>2. /\ pc' = pc /\ cur' = cur
        /\ \A d \in calls' : d \in calls \/ d = e
    BY <1>12 DEF RxProcess, Handle, workerVars
  <2>3. state'[c.dst][c.label] = "RX"
    BY <1>3, <1>12 DEF RxProcess, Handle, TypeInv, TypeOK
  <2> HIDE DEF e
  <2> QED
    BY <2>1, <2>2, <2>3, <1>4
<1>14. ASSUME NEW k \in conns, Redeliver(k) PROVE AnswersHeld'
  <2> DEFINE e == [src |-> k.src, label |-> k.label, dst |-> k.dst,
                   by |-> None, phase |-> "sent"]
  <2>1. /\ calls' = calls \cup {e} /\ pc' = pc /\ cur' = cur
        /\ e.phase = "sent"
    BY <1>14 DEF Redeliver, workerVars
  <2> HIDE DEF e
  <2> QED
    BY <2>1, <1>4
<1> QED
  BY <1>5, <1>6, <1>7, <1>8, <1>9, <1>10, <1>11, <1>12, <1>14, StepKinds
     DEF StepKind, WorkerStep, Discover, Visit, Answer

(* No step makes an entry CONN whose other end does not hold the caller.   *)
LEMMA HeldNext ==
  ASSUME IInv, AnswersHeld, ConnHeldSomehow, [Next]_vars
  PROVE  ConnHeldSomehow'
<1> USE DEF IInv, ConnHeldSomehow
<1> SUFFICES ASSUME NEW m \in NSE, NEW q \in NSE, state'[m][q] = "CONN"
             PROVE  \E l \in {m, NoName} : state'[q][l] = "RX"
  OBVIOUS
<1> DEFINE Held == \E l \in {m, NoName} : state[q][l] = "RX"
<1>1. state[m][q] = "CONN" \/ Held
  <2>1. ASSUME NEW n \in NSE, NEW p \in Name, Enters(n, p)
        PROVE  state[m][q] = "CONN"
    BY <2>1, PeerTypes DEF Enters, AddedPeer, TypeInv, TypeOK
  <2>2. ASSUME NEW n \in NSE, NEW w \in Worker, BeginConnect(n, w)
        PROVE  state[m][q] = "CONN"
    BY <2>2, PeerTypes DEF BeginConnect, ConnectFrom, TypeInv, TypeOK
  <2>3. ASSUME NEW n \in NSE, NEW w \in Worker, NEW s \in {"CONN", "CONNERR"},
               Ends(n, w, s)
        PROVE  state[m][q] = "CONN" \/ Held
    <3>1. CASE m = n /\ q = cur[n][w]
      <4>1. s = "CONN"
        BY <2>3, <3>1, PeerTypes DEF Ends, EndVisit, TypeInv, TypeOK
      <4> QED
        BY <2>3, <3>1, <4>1 DEF Ends, AnswersHeld
    <3>2. CASE ~(m = n /\ q = cur[n][w])
      BY <2>3, <3>2, PeerTypes DEF Ends, EndVisit, TypeInv, TypeOK
    <3> QED
      BY <3>1, <3>2
  <2>4. ASSUME NEW c \in calls, RxProcess(c) PROVE state[m][q] = "CONN"
    BY <2>4, PeerTypes DEF RxProcess, Handle, TypeInv, TypeOK
  <2> HIDE DEF Held
  <2> QED
    BY <2>1, <2>2, <2>3, <2>4, PeerStep, PeerTypes DEF PeerChange, peerVars
<1>2. PICK l \in {m, NoName} : state[q][l] = "RX"
  BY <1>1
<1>3. l \in Name
  BY DEF Name
<1> QED
  BY <1>2, <1>3, RxStays

(* A peer that counts as connected holds the caller, under the caller's    *)
(* name or under the empty one, also when requests come before the name of *)
(* the endpoint is stored.                                                 *)
THEOREM ConnectedIsHeld == Spec => []ConnHeldSomehow
<1>1. Init => HInv
  <2>1. Init => IInv
    <3>1. Init => ConnectsUnderPeerLock
      BY ConstantsAssumption DEF Init, ConnectsUnderPeerLock
    <3>2. Init => AttemptCounted /\ CallsAwaited
      BY DEF Init, AttemptCounted, CallsAwaited
    <3> QED
      BY <3>1, <3>2, TypeInit DEF IInv
  <2>2. Init => LabelsOwn /\ AnswersHeld /\ ConnHeldSomehow
    BY DEF Init, LabelsOwn, AnswersHeld, ConnHeldSomehow, Name
  <2> QED
    BY <2>1, <2>2 DEF HInv
<1>2. HInv /\ [Next]_vars => HInv'
  BY TypeNext, LockNext, CountNext, AwaitedNext, LabelsNext, AnswersNext, HeldNext
     DEF HInv, IInv
<1>3. HInv => ConnHeldSomehow
  BY DEF HInv
<1> QED
  BY <1>1, <1>2, <1>3, PTL DEF Spec

-----------------------------------------------------------------------------
(* An established link is not given up for one that still counts.          *)

(* An attempt that is over and has not failed was admitted, even when its  *)
(* own entry has become RX since.                                          *)
UpAgreed ==
  \A n, p \in NSE :
    performed[n][p] = 1 /\ state[n][p] # "INPROG" /\ ~connErr[n][p]
      => state[p][n] = "RX"

(* No step ends an attempt without an error that was not admitted.         *)
LEMMA UpNext ==
  ASSUME NInv, UpAgreed, [Next]_vars
  PROVE  UpAgreed'
<1> USE DEF NInv, IInv, UpAgreed
<1> SUFFICES ASSUME NEW m \in NSE, NEW q \in NSE,
                    performed'[m][q] = 1, state'[m][q] # "INPROG", ~connErr'[m][q]
             PROVE  state'[q][m] = "RX"
  OBVIOUS
<1>1. \/ performed[m][q] = 1 /\ state[m][q] # "INPROG" /\ ~connErr[m][q]
      \/ state[q][m] = "RX"
  <2>1. ASSUME NEW n \in NSE, NEW p \in Name, Enters(n, p)
        PROVE  performed[m][q] = 1 /\ state[m][q] # "INPROG" /\ ~connErr[m][q]
    BY <2>1, PeerTypes DEF Enters, AddedPeer, TypeInv, TypeOK
  <2>2. ASSUME NEW n \in NSE, NEW w \in Worker, BeginConnect(n, w)
        PROVE  performed[m][q] = 1 /\ state[m][q] # "INPROG" /\ ~connErr[m][q]
    BY <2>2, PeerTypes DEF BeginConnect, ConnectFrom, TypeInv, TypeOK
  <2>3. ASSUME NEW n \in NSE, NEW w \in Worker, NEW s \in {"CONN", "CONNERR"},
               Ends(n, w, s)
        PROVE  \/ performed[m][q] = 1 /\ state[m][q] # "INPROG" /\ ~connErr[m][q]
               \/ state[q][m] = "RX"
    <3>1. CASE m = n /\ q = cur[n][w]
      <4>1. s = "CONN"
        BY <2>3, <3>1, PeerTypes DEF Ends, EndVisit, TypeInv, TypeOK
      <4> QED
        BY <2>3, <3>1, <4>1 DEF Ends, CallsTraced
    <3>2. CASE ~(m = n /\ q = cur[n][w])
      BY <2>3, <3>2, PeerTypes DEF Ends, EndVisit, TypeInv, TypeOK
    <3> QED
      BY <3>1, <3>2
  <2>4. ASSUME NEW c \in calls, RxProcess(c)
        PROVE  performed[m][q] = 1 /\ state[m][q] # "INPROG" /\ ~connErr[m][q]
    BY <2>4, PeerTypes DEF RxProcess, Handle, ConnectsUnderPeerLock, TypeInv, TypeOK
  <2> QED
    BY <2>1, <2>2, <2>3, <2>4, PeerStep, PeerTypes DEF PeerChange, peerVars
<1> QED
  BY <1>1, RxStays, PeerTypes

(* Only a handler touches an entry that is CONN, and its caller, which     *)
(* holds this endpoint as RX, has an attempt that is over: it has failed.  *)
LEMMA KeptStep ==
  ASSUME NInv, UpAgreed, [Next]_vars,
         NEW n \in NSE, NEW p \in NSE, state[n][p] = "CONN"
  PROVE  state'[n][p] = "CONN" \/ connErr[p][n]
<1> USE DEF NInv, IInv
<1>1. ASSUME NEW m \in NSE, NEW q \in Name, Enters(m, q) PROVE state'[n][p] = "CONN"
  BY <1>1 DEF Enters, AddedPeer, TypeInv, TypeOK
<1>2. ASSUME NEW m \in NSE, NEW w \in Worker, BeginConnect(m, w)
      PROVE  state'[n][p] = "CONN"
  BY <1>2, PeerTypes DEF BeginConnect, ConnectFrom, TypeInv, TypeOK
<1>3. ASSUME NEW m \in NSE, NEW w \in Worker, NEW s \in {"CONN", "CONNERR"},
             Ends(m, w, s)
      PROVE  state'[n][p] = "CONN"
  BY <1>3, HolderAtEnd DEF Ends, EndVisit, TypeInv, TypeOK
<1>4. ASSUME NEW c \in calls, RxProcess(c)
      PROVE  state'[n][p] = "CONN" \/ connErr[p][n]
  <2>1. CASE n = c.dst /\ p = c.label
    <3>1. p = c.src /\ performed[p][n] = 1
      BY <2>1, PeerTypes DEF OthersOnly, CallsTraced
    <3>2. state[p][n] = "RX"
      BY <3>1 DEF ConnAgreed
    <3> QED
      BY <3>1, <3>2 DEF UpAgreed
  <2>2. CASE ~(n = c.dst /\ p = c.label)
    BY <1>4, <2>2, PeerTypes DEF RxProcess, Handle, TypeInv, TypeOK
  <2> QED
    BY <2>1, <2>2
<1> QED
  BY <1>1, <1>2, <1>3, <1>4, PeerStep, PeerTypes DEF PeerChange, peerVars

(* An established link is downgraded only in favour of a peer whose own    *)
(* attempt has failed, in whatever order late requests arrive.             *)
THEOREM EstablishedKept ==
  ASSUME Early = NSE
  PROVE  Spec => ConnKept
<1>1. Init => UpAgreed
  BY DEF Init, UpAgreed, Name
<1>2. NInv /\ UpAgreed /\ [Next]_vars => UpAgreed'
  BY UpNext
<1>3. NInv /\ UpAgreed /\ [Next]_vars =>
        [\A n, p \in NSE :
           state[n][p] = "CONN" => state'[n][p] = "CONN" \/ connErr[p][n]]_vars
  BY KeptStep
<1> QED
  BY <1>1, <1>2, <1>3, NamedInvariant, PTL DEF Spec, ConnKept

-----------------------------------------------------------------------------
(* The interfaces of a link.                                               *)

(* Who is held as RX has asked.                                            *)
RxAsked ==
  \A n, p \in NSE : state[n][p] = "RX" => performed[p][n] = 1

(* An endpoint interface stands for a caller that is held as RX; a client  *)
(* interface for the one attempt of its NSE, which the peer has admitted   *)
(* without an attempt of its own that counts.                              *)
VppTraced ==
  /\ \A n \in NSE, p \in Name :
       p \in offered[n] \/ iface[n][p] = "endpoint" => state[n][p] = "RX"
  /\ \A n, p \in NSE :
       iface[n][p] = "client" => /\ performed[n][p] = 1
                                 /\ state[p][n] = "RX"
                                 /\ performed[p][n] = 0 \/ connErr[p][n]

LinkInv == NInv /\ UpAgreed /\ RxAsked /\ VppTraced /\ SingleLink

(* Only a handler makes an entry RX, for a caller whose request counts.    *)
LEMMA AskedNext ==
  ASSUME NInv, RxAsked, [Next]_vars
  PROVE  RxAsked'
<1> USE DEF NInv, IInv
<1> SUFFICES ASSUME NEW m \in NSE, NEW q \in NSE, state'[m][q] = "RX"
             PROVE  performed'[q][m] = 1
  BY DEF RxAsked
<1>1. state[m][q] = "RX" \/ performed[q][m] = 1
  <2>1. ASSUME NEW n \in NSE, NEW p \in Name, Enters(n, p) PROVE state[m][q] = "RX"
    BY <2>1, PeerTypes DEF Enters, AddedPeer, TypeInv, TypeOK
  <2>2. ASSUME NEW n \in NSE, NEW w \in Worker, BeginConnect(n, w)
        PROVE  state[m][q] = "RX"
    BY <2>2, PeerTypes DEF BeginConnect, ConnectFrom, TypeInv, TypeOK
  <2>3. ASSUME NEW n \in NSE, NEW w \in Worker, NEW s \in {"CONN", "CONNERR"},
               Ends(n, w, s)
        PROVE  state[m][q] = "RX"
    BY <2>3, PeerTypes DEF Ends, EndVisit, TypeInv, TypeOK
  <2>4. ASSUME NEW c \in calls, RxProcess(c)
        PROVE  state[m][q] = "RX" \/ performed[q][m] = 1
    <3>1. CASE m = c.dst /\ q = c.label
      BY <3>1, PeerTypes DEF OthersOnly, CallsTraced
    <3>2. CASE ~(m = c.dst /\ q = c.label)
      BY <2>4, <3>2, PeerTypes DEF RxProcess, Handle, TypeInv, TypeOK
    <3> QED
      BY <3>1, <3>2
  <2> QED
    BY <2>1, <2>2, <2>3, <2>4, PeerStep, PeerTypes DEF PeerChange, peerVars
<1>2. performed[q][m] = 1
  BY <1>1 DEF RxAsked
<1> QED
  BY <1>2, CountStays, PeerTypes

(* What a step can do to the interfaces.                                   *)
VppChange ==
  \/ UNCHANGED vppVars
  \/ \E n \in NSE, w \in Worker : ProgramDone(n, w)
  \/ \E c \in calls : RxProgram(c)
  \/ \E n \in NSE : Resend(n)
  \/ \E n \in NSE, p \in Name : Closed(n, p)

(* The only steps that touch interfaces: a client programs its own, an     *)
(* endpoint programs those it offers, or a connection is closed.           *)
LEMMA VppStep ==
  ASSUME TypeInv, [Next]_vars
  PROVE  VppChange
<1> USE DEF VppChange
<1>1. CASE UNCHANGED vars
  BY <1>1 DEF vars, vppVars
<1>2. ASSUME NEW n \in NSE, Start(n) \/ NscRequestFindFails(n) PROVE VppChange
  BY <1>2 DEF Start, NscRequestFindFails
<1>3. ASSUME NEW n \in NSE, NEW w \in Worker, NscRequest(n, w) \/ WorkerStep(n, w)
      PROVE  VppChange
  BY <1>3 DEF NscRequest, WorkerStep, Discover, Visit, Answer, SkipSelf, AddPeer,
              LoopEnds, VisitKnown, BeginConnect, ConnectFrom, CallReturns,
              CallFails, CallTimesOut
<1>4. ASSUME NEW c \in calls,
             RxAddPeer(c) \/ RxProcess(c) \/ RxRefused(c) \/ DropLate(c)
      PROVE  VppChange
  BY <1>4 DEF RxAddPeer, RxProcess, Handle, RxRefused, DropLate
<1>5. ASSUME NEW k \in conns, Redeliver(k) \/ Close(k) PROVE VppChange
  <2>1. k.dst \in NSE /\ k.label \in Name
    BY DEF TypeInv, TypeOK, Conn
  <2> QED
    BY <1>5, <2>1 DEF Redeliver, Close
<1>6. ASSUME NEW n \in NSE, NEW p \in Name, CloseUnkept(n, p) PROVE VppChange
  BY <1>6 DEF CloseUnkept
<1> QED
  BY <1>1, <1>2, <1>3, <1>4, <1>5, <1>6 DEF Next, HandlerStep, NsmStep

(* An Update puts endpoint interfaces only, of those it was given.         *)
LEMMA UpdatedPuts ==
  ASSUME TypeOK, NEW n \in NSE, NEW names, NEW ok, Updated(n, names, ok),
         NEW m \in NSE, NEW q \in Name
  PROVE  \/ iface'[m][q] \in {iface[m][q], "none"}
         \/ m = n /\ q \in names /\ iface'[m][q] = "endpoint"
<1>1. PICK put \in SUBSET names, gone \in SUBSET names :
         iface' = [iface EXCEPT ![n] =
                     [p \in Name |-> IF p \in put THEN "endpoint"
                                     ELSE IF p \in gone THEN "none" ELSE @[p]]]
  BY DEF Updated
<1> QED
  BY <1>1 DEF TypeOK

(* What a step does to one interface: it stays, it goes, a caller's        *)
(* interface is put where that caller is held as RX, or the client of an   *)
(* attempt programs its own, with the attempt admitted at the other end.   *)
LEMMA IfaceStep ==
  ASSUME NInv, VppTraced, [Next]_vars, NEW n \in NSE, NEW p \in Name
  PROVE  \/ iface'[n][p] \in {iface[n][p], "none"}
         \/ iface'[n][p] = "endpoint" /\ state[n][p] = "RX"
         \/ /\ iface'[n][p] = "client" /\ UNCHANGED performed
            /\ state[n][p] = "INPROG" /\ state[p][n] = "RX"
            /\ p \in NSE /\ p # n
<1> USE DEF NInv, IInv, TypeInv
<1>1. CASE UNCHANGED vppVars
  BY <1>1 DEF vppVars
<1>2. ASSUME NEW m \in NSE, NEW w \in Worker, ProgramDone(m, w)
      PROVE  \/ iface'[n][p] \in {iface[n][p], "none"}
             \/ /\ iface'[n][p] = "client" /\ UNCHANGED performed
                /\ state[n][p] = "INPROG" /\ state[p][n] = "RX"
                /\ p \in NSE /\ p # n
  <2>1. PICK i \in {"client", "none"} : iface' = [iface EXCEPT ![m][cur[m][w]] = i]
    BY <1>2 DEF ProgramDone
  <2>2. pc[m][w] = "program" /\ performed' = performed
    BY <1>2 DEF ProgramDone, EndVisit
  <2>3. /\ state[m][cur[m][w]] = "INPROG" /\ cur[m][w] \in NSE
        /\ cur[m][w] \in Name
    BY <2>2, HolderAtEnd
  <2>4. state[cur[m][w]][m] = "RX" /\ cur[m][w] # m
    BY <2>2 DEF CallsTraced, OthersOnly, Visiting
  <2>5. CASE n = m /\ p = cur[m][w]
    BY <2>1, <2>2, <2>3, <2>4, <2>5 DEF TypeOK
  <2>6. CASE ~(n = m /\ p = cur[m][w])
    BY <2>1, <2>3, <2>6 DEF TypeOK
  <2> QED
    BY <2>5, <2>6
<1>3. ASSUME NEW c \in calls, RxProgram(c)
      PROVE  \/ iface'[n][p] \in {iface[n][p], "none"}
             \/ iface'[n][p] = "endpoint" /\ state[n][p] = "RX"
  <2>1. c.dst \in NSE /\ c.label \in Name
    BY PeerTypes
  <2>2. \A q \in offered[c.dst] \cup {c.label} : state[c.dst][q] = "RX"
    BY <1>3, <2>1 DEF RxProgram, CallsTraced, Decided, VppTraced, TypeOK
  <2>3. PICK ok \in BOOLEAN : Updated(c.dst, offered[c.dst] \cup {c.label}, ok)
    BY <1>3 DEF RxProgram
  <2> QED
    BY <2>1, <2>2, <2>3, UpdatedPuts
<1>4. ASSUME NEW m \in NSE, Resend(m)
      PROVE  \/ iface'[n][p] \in {iface[n][p], "none"}
             \/ iface'[n][p] = "endpoint" /\ state[n][p] = "RX"
  <2>1. \A q \in offered[m] : state[m][q] = "RX"
    BY DEF VppTraced, TypeOK
  <2>2. PICK ok \in BOOLEAN : Updated(m, offered[m], ok)
    BY <1>4 DEF Resend
  <2> QED
    BY <2>1, <2>2, UpdatedPuts
<1>5. ASSUME NEW m \in NSE, NEW q \in Name, Closed(m, q)
      PROVE  iface'[n][p] \in {iface[n][p], "none"}
  <2>1. PICK i \in {"none", iface[m][q]} : iface' = [iface EXCEPT ![m][q] = i]
    BY <1>5 DEF Closed
  <2> QED
    BY <2>1 DEF TypeOK
<1> QED
  BY <1>1, <1>2, <1>3, <1>4, <1>5, VppStep DEF VppChange

(* What is offered stays what was handled.                                 *)
LEMMA OfferedStep ==
  ASSUME NInv, VppTraced, [Next]_vars, NEW n \in NSE, NEW p \in Name,
         p \in offered'[n]
  PROVE  state[n][p] = "RX"
<1> USE DEF NInv, IInv, TypeInv
<1>1. ASSUME p \in offered[n] PROVE state[n][p] = "RX"
  BY <1>1 DEF VppTraced
<1>2. ASSUME NEW c \in calls, RxProgram(c) PROVE state[n][p] = "RX"
  <2>1. c.dst \in NSE /\ c.label \in Name
    BY PeerTypes
  <2>2. state[c.dst][c.label] = "RX"
    BY <1>2 DEF RxProgram, CallsTraced, Decided
  <2>3. p \in offered[n] \/ (n = c.dst /\ p = c.label)
    BY <1>2, <2>1 DEF RxProgram, TypeOK
  <2> QED
    BY <1>1, <2>2, <2>3
<1>3. ASSUME NEW m \in NSE, NEW q \in Name, Closed(m, q) PROVE p \in offered[n]
  <2>1. PICK left : offered' = [offered EXCEPT ![m] = (@ \ {q}) \cup (@ \cap left)]
    BY <1>3 DEF Closed
  <2> QED
    BY <2>1 DEF TypeOK
<1>4. CASE UNCHANGED vppVars
  BY <1>1, <1>4 DEF vppVars
<1>5. ASSUME NEW m \in NSE, NEW w \in Worker, ProgramDone(m, w)
      PROVE  p \in offered[n]
  BY <1>5 DEF ProgramDone
<1>6. ASSUME NEW m \in NSE, Resend(m) PROVE p \in offered[n]
  BY <1>6 DEF Resend
<1> QED
  BY <1>1, <1>2, <1>3, <1>4, <1>5, <1>6, VppStep DEF VppChange

(* A failed attempt stays failed where the caller is held as RX.           *)
LEMMA FailedStays ==
  ASSUME NInv, [Next]_vars, NEW n \in NSE, NEW p \in NSE, state[p][n] = "RX",
         performed[p][n] = 0 \/ connErr[p][n]
  PROVE  performed'[p][n] = 0 \/ connErr'[p][n]
<1> USE DEF NInv, IInv, TypeInv
<1>1. ASSUME NEW m \in NSE, NEW w \in Worker, BeginConnect(m, w)
      PROVE  performed'[p][n] = performed[p][n] /\ connErr'[p][n] = connErr[p][n]
  BY <1>1, PeerTypes DEF BeginConnect, ConnectFrom, TypeOK
<1>2. ASSUME NEW m \in NSE, NEW w \in Worker, NEW s \in {"CONN", "CONNERR"},
             Ends(m, w, s)
      PROVE  performed'[p][n] = performed[p][n] /\ connErr'[p][n] = connErr[p][n]
  BY <1>2, PeerTypes, HolderAtEnd DEF Ends, EndVisit, TypeOK
<1> QED
  BY <1>1, <1>2, PeerStep DEF PeerChange, peerVars, Enters, RxProcess, Handle

(* Every step keeps the traces of interfaces, and never makes the second   *)
(* of two client interfaces.                                               *)
LEMMA VppNext ==
  ASSUME NInv, UpAgreed, RxAsked, VppTraced, SingleLink, [Next]_vars
  PROVE  VppTraced' /\ SingleLink'
<1> USE DEF NInv, IInv
<1>1. \A m \in NSE, q \in Name : state[m][q] = "RX" => state'[m][q] = "RX"
  BY RxStays
<1>2. ASSUME NEW n \in NSE, NEW p \in Name,
             p \in offered'[n] \/ iface'[n][p] = "endpoint"
      PROVE  state'[n][p] = "RX"
  <2>1. CASE p \in offered'[n]
    BY <1>1, <2>1, OfferedStep
  <2>2. CASE iface'[n][p] = "endpoint"
    <3>1. state[n][p] = "RX"
      BY <2>2, IfaceStep DEF VppTraced
    <3> QED
      BY <1>1, <3>1
  <2> QED
    BY <1>2, <2>1, <2>2
<1>3. ASSUME NEW n \in NSE, NEW p \in NSE, iface'[n][p] = "client"
      PROVE  /\ performed[n][p] = 1 /\ state[p][n] = "RX"
             /\ performed[p][n] = 0 \/ connErr[p][n]
             /\ iface[n][p] = "client" \/ state[n][p] = "INPROG"
  <2>1. n \in Name /\ p \in Name
    BY PeerTypes
  <2>2. CASE iface[n][p] = "client"
    BY <2>2 DEF VppTraced
  <2>3. CASE state[n][p] = "INPROG" /\ state[p][n] = "RX"
    <3>1. performed[n][p] = 1 /\ performed[p][n] \in {0, 1}
      BY <2>1, <2>3 DEF AttemptCounted
    <3>2. performed[p][n] = 0 \/ connErr[p][n]
      BY <2>3, <3>1 DEF UpAgreed
    <3> QED
      BY <2>3, <3>1, <3>2
  <2> QED
    BY <1>3, <2>1, <2>2, <2>3, IfaceStep
<1>4. VppTraced'
  <2>1. ASSUME NEW n \in NSE, NEW p \in NSE, iface'[n][p] = "client"
        PROVE  /\ performed'[n][p] = 1 /\ state'[p][n] = "RX"
               /\ performed'[p][n] = 0 \/ connErr'[p][n]
    BY <1>1, <1>3, <2>1, CountStays, FailedStays, PeerTypes
  <2> QED
    BY <1>2, <2>1 DEF VppTraced
<1>5. SingleLink'
  <2> SUFFICES ASSUME NEW n \in NSE, NEW p \in NSE,
                      iface'[n][p] = "client", iface'[p][n] = "client"
               PROVE  FALSE
    BY DEF SingleLink
  <2>1. state[p][n] = "RX" /\ state[n][p] = "RX"
    BY <1>3
  <2>2. iface[n][p] = "client" /\ iface[p][n] = "client"
    BY <1>3, <2>1
  <2> QED
    BY <2>2 DEF SingleLink
<1> QED
  BY <1>4, <1>5

(* When names are stored first, what VPP has at the two ends of a link     *)
(* follows from the entries of the peer tables.                            *)
THEOREM LinkInvariant ==
  ASSUME Early = NSE
  PROVE  Spec => []LinkInv
<1>1. Init => UpAgreed /\ RxAsked /\ VppTraced /\ SingleLink
  BY DEF Init, UpAgreed, RxAsked, VppTraced, SingleLink, Name
<1>2. NInv /\ UpAgreed /\ RxAsked /\ VppTraced /\ SingleLink /\ [Next]_vars =>
        UpAgreed' /\ RxAsked' /\ VppTraced' /\ SingleLink'
  BY UpNext, AskedNext, VppNext
<1> QED
  BY <1>1, <1>2, NamedInvariant, PTL DEF Spec, LinkInv

(* Two endpoints that discover each other never end up with a client       *)
(* interface at both ends, whatever late handlers programmed.              *)
THEOREM OneLinkPerPair ==
  ASSUME Early = NSE
  PROVE  Spec => []SingleLink
<1>1. LinkInv => SingleLink
  BY DEF LinkInv
<1> QED
  BY <1>1, LinkInvariant, PTL

(* The step that sends a request finds neither end connected.              *)
LEMMA RequestStep ==
  ASSUME LinkInv, [Next]_vars, NEW n \in NSE, NEW p \in NSE,
         performed'[n][p] # performed[n][p]
  PROVE  /\ iface[n][p] = "none" /\ iface[p][n] # "client"
         /\ state[p][n] # "CONN"
<1> USE DEF LinkInv, NInv, IInv
<1>1. p \in Name /\ iface[n][p] \in {"none", "client", "endpoint"}
  BY PeerTypes DEF TypeInv, TypeOK
<1>2. PICK m \in NSE, w \in Worker : BeginConnect(m, w)
  BY PeerStep DEF PeerChange, peerVars, Enters, Ends, EndVisit, RxProcess, Handle
<1>3. m = n /\ cur[m][w] = p
  BY <1>1, <1>2, PeerTypes DEF BeginConnect, ConnectFrom, TypeInv, TypeOK
<1>4. state[n][p] = "NOTCONN" /\ performed[n][p] = 0
  BY <1>1, <1>2, <1>3 DEF BeginConnect, ConnectFrom, AttemptCounted
<1> QED
  BY <1>1, <1>4 DEF VppTraced, ConnAgreed

(* A request goes only to a peer with which no interface exists at either  *)
(* end and that does not count the endpoint as connected.                  *)
THEOREM RequestsOnlyUnconnected ==
  ASSUME Early = NSE
  PROVE  Spec => AsksOnlyUnconnected
<1>1. LinkInv /\ [Next]_vars =>
        [\A n, p \in NSE :
           performed'[n][p] # performed[n][p] =>
             /\ iface[n][p] = "none" /\ iface[p][n] # "client"
             /\ state[p][n] # "CONN"]_vars
  BY RequestStep
<1> QED
  BY <1>1, LinkInvariant, PTL DEF Spec, AsksOnlyUnconnected

(* The step that puts an endpoint interface in the place of a client one.  *)
LEMMA ReplaceStep ==
  ASSUME LinkInv, [Next]_vars, NEW n \in NSE, NEW p \in NSE,
         iface[n][p] = "client", iface'[n][p] = "endpoint"
  PROVE  connErr[p][n]
<1> USE DEF LinkInv
<1>1. p \in Name
  BY PeerTypes DEF NInv, IInv
<1>2. state[n][p] = "RX"
  BY <1>1, IfaceStep
<1>3. performed[p][n] = 1
  BY <1>2 DEF RxAsked
<1> QED
  BY <1>3 DEF VppTraced

(* A client interface gives way to an endpoint interface of that name only *)
(* where the peer's own attempt has failed.                                *)
THEOREM ClientInterfaceKept ==
  ASSUME Early = NSE
  PROVE  Spec => ClientKept
<1>1. LinkInv /\ [Next]_vars =>
        [\A n, p \in NSE :
           iface[n][p] = "client" /\ iface'[n][p] = "endpoint" => connErr[p][n]]_vars
  BY ReplaceStep
<1> QED
  BY <1>1, LinkInvariant, PTL DEF Spec, ClientKept

-----------------------------------------------------------------------------
(* Every step of the peering is a step of its contract, or a stutter.      *)

(* A table that differs from another at one place only is its EXCEPT.      *)
LEMMA MapUpdate ==
  ASSUME NEW S, NEW f \in [NSE -> [NSE -> S]], NEW g \in [NSE -> [NSE -> S]],
         NEW n \in NSE, NEW p \in NSE, NEW v \in S,
         \A m, q \in NSE : g[m][q] = IF m = n /\ q = p THEN v ELSE f[m][q]
  PROVE  g = [f EXCEPT ![n][p] = v]
<1> DEFINE h == [f EXCEPT ![n][p] = v]
<1>1. h \in [NSE -> [NSE -> S]]
  OBVIOUS
<1>2. \A m \in NSE : g[m] = h[m]
  <2> SUFFICES ASSUME NEW m \in NSE PROVE g[m] = h[m]
    OBVIOUS
  <2>1. g[m] \in [NSE -> S] /\ h[m] \in [NSE -> S]
    BY <1>1
  <2>2. \A q \in NSE : g[m][q] = h[m][q]
    OBVIOUS
  <2> HIDE DEF h
  <2> QED
    BY <2>1, <2>2
<1> HIDE DEF h
<1>3. g = h
  BY <1>1, <1>2
<1> QED
  BY <1>3 DEF h

AttemptKind == {"none", "trying", "up", "failed"}

(* The mapped state of the contract has its type.                          *)
LEMMA AttemptTypes ==
  /\ attemptOf \in [NSE -> [NSE -> AttemptKind]]
  /\ attemptOf' \in [NSE -> [NSE -> AttemptKind]]
  BY DEF attemptOf, AttemptKind

(* The initial states map to the initial states of the contract.           *)
LEMMA ContractInit == Init => Contract!Init
<1> SUFFICES ASSUME Init PROVE Contract!Init
  OBVIOUS
<1>1. \A n, p \in NSE : /\ performed[n][p] = 0 /\ state[n][p] = "ABSENT"
  BY DEF Init, Name
<1>2. attemptOf = [n \in NSE |-> [p \in NSE |-> "none"]]
  BY <1>1 DEF attemptOf
<1>4. admittedOf = [p \in NSE |-> {}]
  BY <1>1 DEF admittedOf
<1> QED
  BY <1>2, <1>4 DEF Contract!Init

(* Each step maps to a step of the contract, or to a stutter.              *)
LEMMA ContractStep ==
  ASSUME NInv, [Next]_vars
  PROVE  [Contract!Next]_<<attemptOf, admittedOf>>
<1> USE DEF NInv, IInv, TypeInv
<1>1. CASE UNCHANGED peerVars
  BY <1>1 DEF peerVars, attemptOf, admittedOf
<1>2. ASSUME NEW n \in NSE, NEW p \in Name, Enters(n, p)
      PROVE  UNCHANGED <<attemptOf, admittedOf>>
  <2>1. \A m \in NSE, q \in NSE :
          /\ performed'[m][q] = performed[m][q] /\ connErr'[m][q] = connErr[m][q]
          /\ state'[m][q] = "INPROG" <=> state[m][q] = "INPROG"
          /\ state'[m][q] = "RX" <=> state[m][q] = "RX"
    BY <1>2, PeerTypes DEF Enters, AddedPeer, TypeOK
  <2> QED
    BY <2>1 DEF attemptOf, admittedOf
<1>3. ASSUME NEW n \in NSE, NEW w \in Worker, BeginConnect(n, w)
      PROVE  Contract!Next
  <2> DEFINE p == cur[n][w]
  <2>1. p \in NSE /\ p \in Name /\ p # n
    BY <1>3 DEF BeginConnect, ConnectFrom, VisitsPeers, Visiting, OthersOnly, Name
  <2>2. state[n][p] = "NOTCONN" /\ performed[n][p] = 0
    BY <1>3, <2>1 DEF BeginConnect, ConnectFrom, AttemptCounted
  <2>3. \A m \in NSE, q \in NSE :
          /\ connErr'[m][q] = connErr[m][q]
          /\ performed'[m][q] = IF m = n /\ q = p THEN 1 ELSE performed[m][q]
          /\ state'[m][q] = IF m = n /\ q = p THEN "INPROG" ELSE state[m][q]
    BY <1>3, <2>1, <2>2, PeerTypes DEF BeginConnect, ConnectFrom, TypeOK
  <2> HIDE DEF p
  <2>4. attemptOf[n][p] = "none" /\ p \notin admittedOf[n]
    BY <2>1, <2>2 DEF attemptOf, admittedOf
  <2>5. attemptOf' = [attemptOf EXCEPT ![n][p] = "trying"]
    <3>1. \A m, q \in NSE : attemptOf'[m][q] =
                           IF m = n /\ q = p THEN "trying" ELSE attemptOf[m][q]
      BY <2>1, <2>3 DEF attemptOf
    <3> QED
      BY <2>1, <3>1, AttemptTypes, MapUpdate DEF AttemptKind
  <2>6. admittedOf' = admittedOf
    BY <2>1, <2>2, <2>3 DEF admittedOf
  <2> QED
    BY <2>1, <2>4, <2>5, <2>6 DEF Contract!Next, Contract!Try
<1>4. ASSUME NEW n \in NSE, NEW w \in Worker, NEW s \in {"CONN", "CONNERR"},
             Ends(n, w, s)
      PROVE  Contract!Next
  <2> DEFINE p == cur[n][w]
  <2>1. p \in NSE /\ p \in Name /\ state[n][p] = "INPROG"
    BY <1>4, HolderAtEnd DEF Ends
  <2>2. performed[n][p] = 1
    BY <2>1 DEF AttemptCounted
  <2>3. \A m \in NSE, q \in NSE :
          /\ performed'[m][q] = performed[m][q]
          /\ connErr'[m][q] = IF m = n /\ q = p THEN s = "CONNERR" ELSE connErr[m][q]
          /\ state'[m][q] = IF m = n /\ q = p THEN s ELSE state[m][q]
    BY <1>4, <2>1, PeerTypes DEF Ends, EndVisit, TypeOK
  <2>4. s = "CONN" => state[p][n] = "RX"
    BY <1>4 DEF Ends, CallsTraced
  <2> HIDE DEF p
  <2>5. attemptOf[n][p] = "trying"
    BY <2>1, <2>2 DEF attemptOf
  <2>6. attemptOf' = [attemptOf EXCEPT ![n][p] = IF s = "CONN" THEN "up" ELSE "failed"]
    <3> DEFINE v == IF s = "CONN" THEN "up" ELSE "failed"
    <3>1. \A m, q \in NSE : attemptOf'[m][q] =
                           IF m = n /\ q = p THEN v ELSE attemptOf[m][q]
      <4> SUFFICES ASSUME NEW m \in NSE, NEW q \in NSE
                   PROVE  attemptOf'[m][q] =
                            IF m = n /\ q = p THEN v ELSE attemptOf[m][q]
        OBVIOUS
      <4>1. CASE m = n /\ q = p
        <5>1. /\ performed'[n][p] = 1 /\ state'[n][p] = s
              /\ connErr'[n][p] = (s = "CONNERR")
          BY <2>1, <2>2, <2>3
        <5>2. attemptOf'[n][p] = IF connErr'[n][p] THEN "failed" ELSE "up"
          BY <2>1, <5>1 DEF attemptOf
        <5>3. attemptOf'[n][p] = v
          <6>1. CASE s = "CONN"
            BY <5>1, <5>2, <6>1
          <6>2. CASE s = "CONNERR"
            BY <5>1, <5>2, <6>2
          <6> QED
            BY <6>1, <6>2
        <5> QED
          BY <4>1, <5>3
      <4>2. CASE ~(m = n /\ q = p)
        <5>1. /\ performed'[m][q] = performed[m][q]
              /\ connErr'[m][q] = connErr[m][q] /\ state'[m][q] = state[m][q]
          BY <2>3, <4>2
        <5>2. attemptOf'[m][q] = attemptOf[m][q]
          BY <5>1 DEF attemptOf
        <5> QED
          BY <4>2, <5>2
      <4> QED
        BY <4>1, <4>2
    <3>2. v \in AttemptKind
      BY DEF AttemptKind
    <3> HIDE DEF v
    <3>3. attemptOf' = [attemptOf EXCEPT ![n][p] = v]
      BY <2>1, <3>1, <3>2, AttemptTypes, MapUpdate
    <3> QED
      BY <3>3 DEF v
  <2>7. admittedOf' = admittedOf
    BY <2>1, <2>3 DEF admittedOf
  <2>8. CASE s = "CONN"
    <3>1. n \in admittedOf[p]
      BY <2>1, <2>4, <2>8 DEF admittedOf
    <3> QED
      BY <2>1, <2>5, <2>6, <2>7, <2>8, <3>1 DEF Contract!Next, Contract!Succeed
  <2>9. CASE s = "CONNERR"
    BY <2>1, <2>5, <2>6, <2>7, <2>9 DEF Contract!Next, Contract!Fail
  <2> QED
    BY <2>8, <2>9
<1>5. ASSUME NEW c \in calls, RxProcess(c) PROVE Contract!Next
  <2> DEFINE p == c.dst
             n == c.src
  <2>1. n \in NSE /\ p \in NSE /\ c.label = n /\ NSE \subseteq Name
    BY PeerTypes DEF OthersOnly
  <2>2. performed[n][p] = 1
    BY DEF CallsTraced
  <2>3. state[p][n] # "INPROG"
    BY <1>5, <2>1 DEF RxProcess, ConnectsUnderPeerLock
  <2>4. \A m \in NSE, q \in NSE :
          /\ performed'[m][q] = performed[m][q]
          /\ connErr'[m][q] = connErr[m][q]
          /\ state'[m][q] = IF m = p /\ q = n THEN "RX" ELSE state[m][q]
    BY <1>5, <2>1 DEF RxProcess, Handle, TypeOK
  <2>5. attemptOf[n][p] # "none" /\ attemptOf[p][n] # "trying"
    BY <2>1, <2>2, <2>3 DEF attemptOf
  <2>6. attemptOf' = attemptOf
    BY <2>1, <2>3, <2>4 DEF attemptOf
  <2>7. admittedOf' = [admittedOf EXCEPT ![p] = @ \cup {n}]
    <3>1. \A m \in NSE : {q \in NSE : state'[m][q] = "RX"} =
                           IF m = p THEN {q \in NSE : state[m][q] = "RX"} \cup {n}
                                    ELSE {q \in NSE : state[m][q] = "RX"}
      BY <2>1, <2>4
    <3> QED
      BY <2>1, <3>1 DEF admittedOf
  <2> QED
    BY <2>1, <2>5, <2>6, <2>7 DEF Contract!Next, Contract!Admit
<1>6. ASSUME NEW n \in NSE, NEW w \in Worker, NEW p \in todo[n][w], Enters(n, p)
      PROVE  UNCHANGED <<attemptOf, admittedOf>>
  BY <1>2, <1>6, PeerTypes
<1>7. ASSUME NEW c \in calls, Enters(c.dst, c.label)
      PROVE  UNCHANGED <<attemptOf, admittedOf>>
  BY <1>2, <1>7, PeerTypes
<1> QED
  BY <1>1, <1>3, <1>4, <1>5, <1>6, <1>7, PeerStep DEF PeerChange

(* Peering implements PeeringContract: one attempt per ordered pair, none  *)
(* towards oneself or somebody already admitted, and no success without    *)
(* the other side's admission.                                             *)
THEOREM PeeringImplementsContract ==
  ASSUME Early = NSE
  PROVE  Spec => ImplementsContract
<1>1. NInv /\ [Next]_vars => [Contract!Next]_<<attemptOf, admittedOf>>
  BY ContractStep
<1> QED
  BY <1>1, ContractInit, NamedInvariant, PTL
     DEF Spec, ImplementsContract, Contract!Spec

=============================================================================
