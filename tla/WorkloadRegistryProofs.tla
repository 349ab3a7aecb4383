----------------------- MODULE WorkloadRegistryProofs -----------------------
(***************************************************************************)
(* Proofs about WorkloadRegistry, for every finite set of connections.     *)
(* What is registered follows the connections whatever the registry and    *)
(* NSM do, also beside connections that share an identifier; the gauge     *)
(* needs a regular registry, no repeated Request and different             *)
(* identifiers.                                                            *)
(***************************************************************************)
EXTENDS WorkloadRegistry, FiniteSetTheorems, FunctionTheorems, TLAPS

(* Only labelled connections get to the registry.                          *)
CallsLabelled ==
  \A c \in Conn : pc[c] \in {"register", "remove"} => c \in Labelled

(* RegistryFollows, from the answer of the registry on.                    *)
FollowsFromCall ==
  \A c \in Labelled \ logged : Alone(c) =>
    /\ pc[c] \in {"chain", "open"} => Identifier(c) \in registry
    /\ pc[c] \in {"closing", "unclosed", "closed"} => Identifier(c) \notin registry

(* The workload of a connection is not in the registry before its call.    *)
RegisteredOnce ==
  \A c \in Labelled : pc[c] \in {"new", "register"} => Identifier(c) \notin registry

Follows == TypeOK /\ CallsLabelled /\ FollowsFromCall
Balanced == RegisteredOnce /\ GaugeBalanced

-----------------------------------------------------------------------------
(* Which connections get to the registry.                                  *)
LEMMA WorkloadsLabelled == Workloads \subseteq Labelled /\ Labelled \subseteq Conn
BY DEF Workloads, Labelled

(* The first state satisfies the invariants.                               *)
LEMMA RegistryInit == Init => Follows /\ Balanced
<1> SUFFICES ASSUME Init PROVE Follows /\ Balanced
  OBVIOUS
<1>1. Cardinality(registry) = 0
  BY FS_EmptySet DEF Init
<1>2. TypeOK
  BY DEF Init, TypeOK
<1>3. CallsLabelled /\ FollowsFromCall /\ RegisteredOnce
  BY WorkloadsLabelled DEF Init, CallsLabelled, FollowsFromCall, RegisteredOnce
<1>4. GaugeBalanced
  BY <1>1 DEF Init, GaugeBalanced
<1> QED
  BY <1>2, <1>3, <1>4 DEF Follows, Balanced

(* What one handler changes, and what a goroutine of the gauge changes.    *)
LEMMA RegistryStep ==
  ASSUME [Next]_vars
  PROVE  \/ \E c \in Conn : Handler(c)
         \/ (Inc \/ Dec \/ UNCHANGED vars) /\ UNCHANGED <<pc, registry, logged>>
BY DEF Next, Inc, Dec, vars

(* A step keeps the types; the registry only hears of workloads.           *)
LEMMA RegistryTypes ==
  ASSUME TypeOK, CallsLabelled, [Next]_vars
  PROVE  TypeOK' /\ CallsLabelled'
<1> USE DEF TypeOK, CallsLabelled, gaugeVars, Goes
<1>1. CASE (Inc \/ Dec \/ UNCHANGED vars) /\ UNCHANGED <<pc, registry, logged>>
  BY <1>1 DEF Inc, Dec, vars
<1>2. ASSUME NEW c \in Conn, Request(c) \/ Close(c) PROVE TypeOK' /\ CallsLabelled'
  BY <1>2 DEF Request, Close
<1>3. ASSUME NEW c \in Conn, RequestReturns(c) \/ CloseReturns(c)
      PROVE  TypeOK' /\ CallsLabelled'
  BY <1>3 DEF RequestReturns, CloseReturns
<1>4. ASSUME NEW c \in Conn, Register(c) \/ Remove(c) PROVE TypeOK' /\ CallsLabelled'
  BY <1>4 DEF Register, Remove
<1>5. ASSUME NEW c \in Conn, RegisterFails(c) PROVE TypeOK' /\ CallsLabelled'
  <2>1. registry' \subseteq {Identifier(d) : d \in Workloads}
    BY <1>5 DEF RegisterFails, AfterError
  <2> QED
    BY <1>5, <2>1 DEF RegisterFails
<1>6. ASSUME NEW c \in Conn, RemoveFails(c) PROVE TypeOK' /\ CallsLabelled'
  <2>1. registry' \subseteq {Identifier(d) : d \in Workloads}
    BY <1>6 DEF RemoveFails, AfterError
  <2> QED
    BY <1>6, <2>1 DEF RemoveFails
<1> QED
  BY <1>1, <1>2, <1>3, <1>4, <1>5, <1>6, RegistryStep DEF Handler

(* An unlogged workload is in the registry from its Register to its        *)
(* Remove, and no other handler touches it.                                *)
LEMMA RegistryKept ==
  ASSUME TypeOK, CallsLabelled, FollowsFromCall, [Next]_vars
  PROVE  FollowsFromCall'
<1> USE DEF TypeOK, FollowsFromCall, Goes
<1>1. CASE UNCHANGED <<pc, registry, logged>>
  BY <1>1
<1>2. ASSUME NEW c \in Conn, Request(c) \/ Close(c) PROVE FollowsFromCall'
  <2>1. IF c \in Labelled THEN pc'[c] \in {"register", "remove"}
                          ELSE TRUE
    BY <1>2, WorkloadsLabelled DEF Request, Close
  <2>2. \A d \in Conn \ {c} : pc'[d] = pc[d]
    BY <1>2 DEF Request, Close
  <2>3. UNCHANGED <<registry, logged>>
    BY <1>2 DEF Request, Close
  <2> QED
    BY <2>1, <2>2, <2>3, WorkloadsLabelled
<1>3. ASSUME NEW c \in Conn, RequestReturns(c) \/ CloseReturns(c)
      PROVE  FollowsFromCall'
  <2>1. \/ pc[c] = "chain" /\ pc'[c] \in {"open", "refused"}
        \/ pc[c] = "closing" /\ pc'[c] \in {"unclosed", "closed"}
    BY <1>3 DEF RequestReturns, CloseReturns
  <2>2. \A d \in Conn \ {c} : pc'[d] = pc[d]
    BY <1>3 DEF RequestReturns, CloseReturns
  <2>3. UNCHANGED <<registry, logged>>
    BY <1>3 DEF RequestReturns, CloseReturns
  <2> QED
    BY <2>1, <2>2, <2>3, WorkloadsLabelled
<1>4. ASSUME NEW c \in Conn, Register(c) \/ Remove(c) PROVE FollowsFromCall'
  <2>1. /\ c \in Labelled /\ logged' = logged
        /\ \/ registry' = registry \cup {Identifier(c)} /\ pc'[c] = "chain"
           \/ registry' = registry \ {Identifier(c)} /\ pc'[c] = "closing"
    BY <1>4, WorkloadsLabelled DEF Register, Remove
  <2>2. \A d \in Conn \ {c} : pc'[d] = pc[d]
    BY <1>4 DEF Register, Remove
  <2> QED
    BY <2>1, <2>2, WorkloadsLabelled DEF Alone
<1>5. ASSUME NEW c \in Conn, RegisterFails(c) \/ RemoveFails(c)
      PROVE  FollowsFromCall'
  <2>1. /\ c \in Labelled /\ logged' = logged \cup {c}
        /\ registry' \in {registry, registry \cup {Identifier(c)},
                         registry \ {Identifier(c)}}
    BY <1>5 DEF RegisterFails, RemoveFails, AfterError, CallsLabelled
  <2>2. \A d \in Conn \ {c} : pc'[d] = pc[d]
    BY <1>5 DEF RegisterFails, RemoveFails
  <2> QED
    BY <2>1, <2>2, WorkloadsLabelled DEF Alone
<1> QED
  BY <1>1, <1>2, <1>3, <1>4, <1>5, RegistryStep DEF Handler

(* With a regular registry, no repeated Request and an identifier for each *)
(* connection, every call that is counted changes the registry by one      *)
(* workload.                                                               *)
LEMMA RegistryBalance ==
  ASSUME Anomalies = {}, \A c \in Labelled : Alone(c),
         TypeOK, CallsLabelled, Balanced, [Next]_vars
  PROVE  Balanced'
<1> USE DEF TypeOK, Balanced, RegisteredOnce, GaugeBalanced, gaugeVars, Goes
<1>1. IsFiniteSet(registry)
  <2> DEFINE T == {Identifier(c) : c \in Conn}
             f == [c \in Conn |-> Identifier(c)]
  <2>1. IsFiniteSet(T)
    <3>1. f \in [Conn -> T] /\ \A t \in T : \E c \in Conn : f[c] = t
      OBVIOUS
    <3> HIDE DEF f, T
    <3>2. f \in Surjection(Conn, T)
      BY <3>1, Fun_IsSurj
    <3> QED
      BY <3>2, FS_Surjection, RegistryAssumption DEF RegistryAssumption
  <2>2. registry \subseteq T
    BY WorkloadsLabelled
  <2> QED
    BY <2>1, <2>2, FS_Subset
<1>2. Cardinality(registry) \in Nat
  BY <1>1, FS_CardinalityType
<1>3. CASE (Inc \/ Dec \/ UNCHANGED vars) /\ UNCHANGED <<pc, registry, logged>>
  <2>1. gauge' + incs' - decs' = gauge + incs - decs
    BY <1>3 DEF Inc, Dec, vars
  <2> QED
    BY <1>3, <2>1
<1>4. ASSUME NEW c \in Conn,
             Request(c) \/ RequestReturns(c) \/ Close(c) \/ CloseReturns(c)
      PROVE  Balanced'
  <2>1. UNCHANGED <<registry, gauge, incs, decs>>
    BY <1>4 DEF Request, RequestReturns, Close, CloseReturns
  <2>2. pc[c] = "new" \/ pc'[c] \notin {"new", "register"}
    BY <1>4 DEF Request, RequestReturns, Close, CloseReturns
  <2>3. \A d \in Conn \ {c} : pc'[d] = pc[d]
    BY <1>4 DEF Request, RequestReturns, Close, CloseReturns
  <2> QED
    BY <2>1, <2>2, <2>3, WorkloadsLabelled
<1>5. ASSUME NEW c \in Conn, RegisterFails(c) \/ RemoveFails(c) PROVE Balanced'
  <2>1. UNCHANGED <<registry, gauge, incs, decs>>
    BY <1>5 DEF RegisterFails, RemoveFails, AfterError
  <2>2. pc'[c] \in {"chain", "closing"} /\ \A d \in Conn \ {c} : pc'[d] = pc[d]
    BY <1>5 DEF RegisterFails, RemoveFails
  <2> QED
    BY <2>1, <2>2, WorkloadsLabelled
<1>6. ASSUME NEW c \in Conn, Register(c) PROVE Balanced'
  <2>1. c \in Labelled /\ Identifier(c) \notin registry
    BY <1>6, WorkloadsLabelled DEF Register
  <2>2. Cardinality(registry') = Cardinality(registry) + 1
    BY <1>1, <1>6, <2>1, FS_AddElement DEF Register
  <2>3. GaugeBalanced'
    BY <1>2, <1>6, <2>2 DEF Register
  <2>4. \A d \in Labelled : pc'[d] \in {"new", "register"} => d # c /\ pc[d] = pc'[d]
    BY <1>6, WorkloadsLabelled DEF Register
  <2>5. RegisteredOnce'
    BY <1>6, <2>1, <2>4 DEF Register, Alone
  <2> QED
    BY <2>3, <2>5
<1>7. ASSUME NEW c \in Conn, Remove(c) PROVE Balanced'
  <2>1. Identifier(c) \in registry
    BY <1>7 DEF Remove
  <2>2. Cardinality(registry') = Cardinality(registry) - 1
    BY <1>1, <1>7, <2>1, FS_RemoveElement DEF Remove
  <2>3. GaugeBalanced'
    BY <1>2, <1>7, <2>2 DEF Remove
  <2>4. RegisteredOnce'
    BY <1>7, WorkloadsLabelled DEF Remove
  <2> QED
    BY <2>3, <2>4
<1> QED
  BY <1>3, <1>4, <1>5, <1>6, <1>7, RegistryStep DEF Handler

-----------------------------------------------------------------------------
(* Whatever the registry answers and NSM repeats, every variable keeps its *)
(* type and the registry follows the connections.                          *)
THEOREM RegistryInvariant == Spec => []Follows
<1>1. Init => Follows
  BY RegistryInit
<1>2. Follows /\ [Next]_vars => Follows'
  BY RegistryTypes, RegistryKept DEF Follows
<1> QED
  BY <1>1, <1>2, PTL DEF Spec

(* Every variable keeps its type.                                          *)
THEOREM RegistryTypeCorrect == Spec => []TypeOK
<1>1. Follows => TypeOK
  BY DEF Follows
<1> QED
  BY <1>1, RegistryInvariant, PTL

(* Only a logged error of the registry lets it differ from what NSM has    *)
(* open and closed, for every connection with an identifier of its own.    *)
THEOREM OnlyErrorsDiffer == Spec => []RegistryFollows
<1>1. Follows => RegistryFollows
  BY DEF Follows, FollowsFromCall, RegistryFollows
<1> QED
  BY <1>1, RegistryInvariant, PTL

(* Without anomalies, and with an identifier for each connection, the      *)
(* gauge and its goroutines add up to the workloads of the registry,       *)
(* however the handlers interleave.                                        *)
THEOREM GaugeAddsUp ==
  ASSUME Anomalies = {}, \A c \in Labelled : Alone(c)
  PROVE  Spec => []GaugeBalanced
<1>1. Init => Balanced
  BY RegistryInit
<1>2. Follows /\ Balanced /\ [Next]_vars => Balanced'
  BY RegistryBalance DEF Follows
<1>3. Balanced => GaugeBalanced
  BY DEF Balanced
<1> QED
  BY <1>1, <1>2, <1>3, RegistryInvariant, PTL DEF Spec
=============================================================================
