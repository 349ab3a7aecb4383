-------------------------- MODULE WorkloadRegistry --------------------------
(***************************************************************************)
(* The workloads a vL3 NSE announces: the part of Request and Close of     *)
(* vL3ConnectComposite that registers and removes the workload behind a    *)
(* connection, the client of the service registry (service_registry.go),   *)
(* and the gauge of active workloads (pkg/metrics).                        *)
(*                                                                         *)
(* Handlers of different connections run at the same time.  An error of    *)
(* the registry is logged and the call goes on with the rest of the chain. *)
(* The gauge is changed by goroutines nobody waits for.                    *)
(*                                                                         *)
(* The registry knows a workload by its identifier, which is made of the   *)
(* labels and the name of the endpoint: connections of one pod and service *)
(* are one workload to it, which the one registers anew and the other      *)
(* removes.                                                                *)
(*                                                                         *)
(* External: the service registry, which takes no message that the Validate *)
(* methods of its API package (api/serviceregistry/helper.go) refuse; the  *)
(* rest of the chain, which may refuse a Request and may fail a Close; and *)
(* NSM, whose handlers of one connection follow each other.                *)
(***************************************************************************)
EXTENDS Integers, FiniteSets, Sequences

CONSTANTS
  Conn,        \* connections
  LabelsOf,    \* LabelsOf[c]: cluster, service, pod, "" if not set; and ports,
               \* the label PORT cut at ";", <<>> if not set
  NotNumber,   \* a port that is no 32-bit number
  Addressed,   \* connections whose source addresses have a prefix length
  ConnDomain,  \* the connectivity domain of the endpoint, or ""
  Anomalies    \* "repeat": NSM repeats the Request of a connection it keeps
               \* "lost": the registry does what it answers with an error
               \* "unknown": it removes what it does not have, successfully

ASSUME RegistryAssumption ==
  /\ IsFiniteSet(Conn)
  /\ NotNumber \notin Int
  /\ Addressed \subseteq Conn
  /\ Anomalies \subseteq {"repeat", "lost", "unknown"}

VARIABLES
  pc,        \* what NSM and the handler of a connection are at
  registry,  \* the identifiers of the workloads the service registry has
  logged,    \* connections for which an error of the registry was logged
  gauge,     \* metrics.ActiveWorkloadCount
  incs,      \* goroutines that will call Inc
  decs       \* goroutines that will call Dec

vars == <<pc, registry, logged, gauge, incs, decs>>
gaugeVars == <<gauge, incs, decs>>

-----------------------------------------------------------------------------
(* Which connections are workloads.                                        *)

(* ValidateInLabels finds the four labels.                                 *)
Labelled ==
  {c \in Conn : /\ "" \notin {LabelsOf[c].cluster, LabelsOf[c].service, LabelsOf[c].pod}
                /\ LabelsOf[c].ports # <<>>}

PortsParse ==
  {c \in Conn : \A i \in DOMAIN LabelsOf[c].ports : LabelsOf[c].ports[i] # NotNumber}

(* WorkloadIdentifier; NseName is the same for all.                        *)
Identifier(c) == [cluster |-> LabelsOf[c].cluster, podName |-> LabelsOf[c].pod,
                  name |-> LabelsOf[c].service]

ServiceWorkload(c) ==
  [serviceName |-> LabelsOf[c].service,
   connectivityDomain |-> ConnDomain,
   workload |-> [id |-> Identifier(c), cidrs |-> c \in Addressed],
   ports |-> LabelsOf[c].ports]

WorkloadValid(w) == "" \notin {w.id.cluster, w.id.podName, w.id.name} /\ w.cidrs

ServiceWorkloadValid(x) ==
  /\ "" \notin {x.serviceName, x.connectivityDomain}
  /\ \A i \in DOMAIN x.ports : x.ports[i] \in 1..65535
  /\ WorkloadValid(x.workload)

(* The connections whose message is built, and can be accepted.            *)
Workloads == {c \in Labelled \cap PortsParse : ServiceWorkloadValid(ServiceWorkload(c))}

-----------------------------------------------------------------------------
TypeOK ==
  /\ pc \in [Conn -> {"new", "register", "chain", "open", "refused", "remove",
                      "closing", "unclosed", "closed"}]
  /\ registry \subseteq {Identifier(c) : c \in Workloads}
  /\ logged \subseteq Conn
  /\ gauge \in Int /\ incs \in Nat /\ decs \in Nat

Init ==
  /\ pc = [c \in Conn |-> "new"]
  /\ registry = {} /\ logged = {}
  /\ gauge = 0 /\ incs = 0 /\ decs = 0

Goes(c, to) == pc' = [pc EXCEPT ![c] = to]

-----------------------------------------------------------------------------
(* Request.                                                                *)

Request(c) ==
  /\ \/ pc[c] = "new"
     \/ pc[c] \in {"open", "refused"} /\ "repeat" \in Anomalies
  /\ Goes(c, IF c \in Labelled THEN "register" ELSE "chain")
  /\ UNCHANGED <<registry, logged, gaugeVars>>

(* Mutant: the ports are not looked at.                                    *)
RegisterUnparsed(c) ==
  /\ pc[c] = "register"
  /\ registry' = registry \cup {Identifier(c)}
  /\ incs' = incs + 1
  /\ Goes(c, "chain")
  /\ UNCHANGED <<logged, gauge, decs>>

(* RegisterWorkload; a workload the registry has already is updated.       *)
Register(c) ==
  /\ pc[c] = "register" /\ c \in Workloads
  /\ registry' = registry \cup {Identifier(c)}
  /\ incs' = incs + 1
  /\ Goes(c, "chain")
  /\ UNCHANGED <<logged, gauge, decs>>

(* What the registry has after it answered with an error.                  *)
AfterError(r) == {registry} \cup (IF "lost" \in Anomalies THEN {r} ELSE {})

(* Mutant: the gauge counts the attempts.                                  *)
RegisterFailsCounted(c) ==
  /\ pc[c] = "register"
  /\ registry' \in IF c \in Workloads THEN AfterError(registry \cup {Identifier(c)})
                                      ELSE {registry}
  /\ logged' = logged \cup {c}
  /\ incs' = incs + 1
  /\ Goes(c, "chain")
  /\ UNCHANGED <<gauge, decs>>

(* The ports do not parse, the registry cannot be dialled, or it refuses,  *)
(* as it must refuse a message that is not valid.                          *)
RegisterFails(c) ==
  /\ pc[c] = "register"
  /\ registry' \in IF c \in Workloads THEN AfterError(registry \cup {Identifier(c)})
                                      ELSE {registry}
  /\ logged' = logged \cup {c}
  /\ Goes(c, "chain")
  /\ UNCHANGED gaugeVars

(* The rest of the chain, and with it the Request, succeeds or fails.      *)
RequestReturns(c) ==
  /\ pc[c] = "chain"
  /\ \E to \in {"open", "refused"} : Goes(c, to)
  /\ UNCHANGED <<registry, logged, gaugeVars>>

-----------------------------------------------------------------------------
(* Close.                                                                  *)

(* Mutant: the Close of a connection that was refused removes nothing.     *)
CloseOpened(c) ==
  /\ pc[c] \in {"open", "refused", "unclosed"}
  /\ Goes(c, IF c \in Labelled /\ pc[c] # "refused" THEN "remove" ELSE "closing")
  /\ UNCHANGED <<registry, logged, gaugeVars>>

(* NSM closes a connection it keeps, or one whose Request or Close failed. *)
Close(c) ==
  /\ pc[c] \in {"open", "refused", "unclosed"}
  /\ Goes(c, IF c \in Labelled THEN "remove" ELSE "closing")
  /\ UNCHANGED <<registry, logged, gaugeVars>>

Remove(c) ==
  /\ pc[c] = "remove" /\ c \in Workloads
  /\ Identifier(c) \in registry \/ "unknown" \in Anomalies
  /\ registry' = registry \ {Identifier(c)}
  /\ decs' = decs + 1
  /\ Goes(c, "closing")
  /\ UNCHANGED <<logged, gauge, incs>>

RemoveFails(c) ==
  /\ pc[c] = "remove"
  /\ registry' \in AfterError(registry \ {Identifier(c)})
  /\ logged' = logged \cup {c}
  /\ Goes(c, "closing")
  /\ UNCHANGED gaugeVars

CloseReturns(c) ==
  /\ pc[c] = "closing"
  /\ \E to \in {"unclosed", "closed"} : Goes(c, to)
  /\ UNCHANGED <<registry, logged, gaugeVars>>

-----------------------------------------------------------------------------
(* The goroutines that change the gauge, in any order.                     *)

Inc ==
  /\ incs > 0
  /\ incs' = incs - 1 /\ gauge' = gauge + 1
  /\ UNCHANGED <<pc, registry, logged, decs>>

(* Mutant: the gauge does not go below zero.                               *)
DecClamped ==
  /\ decs > 0
  /\ decs' = decs - 1 /\ gauge' = IF gauge > 0 THEN gauge - 1 ELSE 0
  /\ UNCHANGED <<pc, registry, logged, incs>>

Dec ==
  /\ decs > 0
  /\ decs' = decs - 1 /\ gauge' = gauge - 1
  /\ UNCHANGED <<pc, registry, logged, incs>>

-----------------------------------------------------------------------------
Handler(c) == \/ Request(c) \/ Register(c) \/ RegisterFails(c) \/ RequestReturns(c)
              \/ Close(c) \/ Remove(c) \/ RemoveFails(c) \/ CloseReturns(c)

Next == (\E c \in Conn : Handler(c)) \/ Inc \/ Dec

Spec == Init /\ [][Next]_vars

(* A goroutine that was started runs.                                      *)
FairSpec == Spec /\ WF_vars(Inc) /\ WF_vars(Dec)

-----------------------------------------------------------------------------
(* Properties.                                                             *)

(* No other connection has the identifier of c.                            *)
Alone(c) == \A d \in Labelled \ {c} : Identifier(d) # Identifier(c)

(* The gauge and the goroutines under way always add up to the workloads   *)
(* the registry has: nothing is counted twice or dropped on an error path. *)
(* It needs a regular registry, that no Request is repeated, and that no   *)
(* two connections share an identifier.                                    *)
GaugeBalanced == gauge + incs - decs = Cardinality(registry)

(* An open connection with the labels of a workload, and an identifier of  *)
(* its own, is in the registry, and one whose Close got past the registry  *)
(* is not, but for errors that were logged: also when the Request was      *)
(* refused, a Close is repeated, or no message can be made of the labels.  *)
RegistryFollows ==
  \A c \in Labelled \ logged : Alone(c) =>
    /\ pc[c] = "open" => Identifier(c) \in registry
    /\ pc[c] \in {"closing", "unclosed", "closed"} => Identifier(c) \notin registry

Calling == \E c \in Conn : pc[c] \in {"register", "remove"}

(* When the calls to the registry stop, the gauge comes to show what it    *)
(* has, in whatever order the goroutines run: it may be negative between.  *)
GaugeSettles == <>[]~Calling => <>[](gauge = Cardinality(registry))
=============================================================================
