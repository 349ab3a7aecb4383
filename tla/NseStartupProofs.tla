-------------------------- MODULE NseStartupProofs --------------------------
(***************************************************************************)
(* Proofs about NseStartup, for every set of configurations with any       *)
(* number of endpoints, for both programs.                                 *)
(***************************************************************************)
EXTENDS NseStartup, TLAPS

(* Nothing is accepted that is not valid.                                  *)
AcceptedIsValid == accepted => Valid(config)

(* The endpoints NSM still has during the shutdown are those main has not  *)
(* come to, or those it kept, and only the latter after it.                *)
DeletedInOrder ==
  /\ main = "delete" => registered \subseteq i..Len(config) \cup kept
  /\ main \in {"return", "exited"} => registered \subseteq kept

(* Endpoints get their Cleanup in order, and all have it when a signal is  *)
(* received.                                                               *)
NamedInOrder ==
  /\ main \in {"start", "name"} => 1..(i - 1) \subseteq named
  /\ (main = "wait" /\ ~verify) \/ main = "delete" => Index \subseteq named

(* The loops of Process and of Cleanup stay inside the configuration.      *)
LoopInside == main = "name" => i \in Index

IInv == /\ TypeOK /\ LoopInside /\ AcceptedIsValid /\ AcceptedNeverPanics
        /\ NamedInOrder /\ DeletedInOrder

-----------------------------------------------------------------------------
(* The first state satisfies the invariant.                                *)
LEMMA StartInit == Init => IInv
<1> SUFFICES ASSUME Init PROVE IInv
  OBVIOUS
<1> USE StartupAssumption DEF Init
<1>1. config \in Seq(Endpoint)
  OBVIOUS
<1>2. Len(config) \in Nat
  BY <1>1
<1>3. prefix \in Seq({"leased", "local", "none"})
  OBVIOUS
<1>4. i \in 1..(Len(config) + 1)
  BY <1>2
<1>5. TypeOK /\ LoopInside
  BY <1>1, <1>3, <1>4 DEF TypeOK, LoopInside, Index, Ended
<1> QED
  BY <1>5 DEF IInv, AcceptedIsValid, AcceptedNeverPanics, NamedInOrder,
              DeletedInOrder

(* A step keeps the types and the bounds of the loops.                     *)
LEMMA StartTypes ==
  ASSUME TypeOK, LoopInside, [Next]_vars
  PROVE  TypeOK' /\ LoopInside'
<1> USE DEF TypeOK, LoopInside, Index, Ended, inputVars, subnetVars, nsmVars
<1>0. Len(config) \in Nat
  OBVIOUS
<1>1. CASE UNCHANGED vars
  BY <1>1 DEF vars
<1>2. CASE Signal
  BY <1>2 DEF Signal
<1>3. CASE OpenFails \/ NewConfig
  <2>1. accepted' \in BOOLEAN
    BY <1>3 DEF OpenFails, NewConfig, Fatal, Valid
  <2> QED
    BY <1>3, <2>1 DEF OpenFails, NewConfig, Fatal
<1>4. CASE ResetFails \/ ResetVppAgent
  BY <1>4 DEF ResetFails, ResetVppAgent, Fatal
<1>5. CASE AssembleLeased \/ AssembleLocal
  <2>1. PICK p \in {"leased", "local", "none"} : Assembled(p)
    BY <1>5 DEF AssembleLeased, AssembleLocal
  <2>2. prefix' \in Seq({"leased", "local", "none"})
    BY <2>1 DEF Assembled
  <2>3. i' \in 1..(Len(config) + 1)
    BY <1>0, <2>1 DEF Assembled
  <2>4. leases' \subseteq 1..Len(config)
    <3>1. i \in 1..Len(config)
      BY <2>1 DEF Assembled
    <3>2. leases' \in {leases, leases \cup {i}}
      BY <1>5 DEF AssembleLeased, AssembleLocal
    <3> QED
      BY <3>1, <3>2
  <2>5. UNCHANGED <<config, verify, octet, accepted, main, registered, named, kept, agent,
                    signalled, cancelled>>
    BY <2>1 DEF Assembled
  <2>6. main = "assemble"
    BY <2>1 DEF Assembled
  <2> QED
    BY <2>2, <2>3, <2>4, <2>5, <2>6
<1>6. CASE AssemblePanics \/ AllAssembled
  <2>1. i' \in 1..(Len(config) + 1)
    BY <1>0, <1>6 DEF AssemblePanics, AllAssembled, Panic
  <2> QED
    BY <1>6, <2>1 DEF AssemblePanics, AllAssembled, Panic
<1>7. CASE EndpointFails \/ AllStarted
  BY <1>7 DEF EndpointFails, AllStarted, Fatal
<1>8. CASE StartEndpoint
  BY <1>0, <1>8 DEF StartEndpoint
<1>9. CASE NameEndpoint
  BY <1>0, <1>9 DEF NameEndpoint
<1>10. CASE Receive \/ ReceiveVerified
  <2>1. i' \in 1..(Len(config) + 1)
    <3>1. i' = 1 \/ i' = i
      BY <1>10 DEF Receive, ReceiveVerified, Panic
    <3> QED
      BY <1>0, <3>1
  <2>2. main' \in {"delete", "panicked"}
    BY <1>10 DEF Receive, ReceiveVerified, Panic
  <2>3. UNCHANGED <<config, verify, octet, accepted, prefix, leases, registered, named, kept,
                    agent, signalled, cancelled>>
    BY <1>10 DEF Receive, ReceiveVerified, Panic
  <2> QED
    BY <2>1, <2>2, <2>3
<1>11. CASE Delete
  <2>1. i \in 1..Len(config) /\ main = "delete"
    BY <1>11 DEF Delete, Deleted
  <2>2. /\ i' \in {i, i + 1} /\ main' \in {main, "panicked"}
        /\ registered' \in {registered, registered \ {i}}
        /\ kept' \in {kept, kept \cup {i}}
        /\ UNCHANGED <<config, verify, octet, accepted, prefix, leases, named, agent,
                       signalled, cancelled>>
    BY <1>11 DEF Delete, Deleted, Panic
  <2>3. i' \in 1..(Len(config) + 1)
    BY <1>0, <2>1, <2>2
  <2> QED
    BY <2>1, <2>2, <2>3
<1>12. CASE AllDeleted \/ Exit
  BY <1>12 DEF AllDeleted, Exit
<1> QED
  BY <1>1, <1>2, <1>3, <1>4, <1>5, <1>6, <1>7, <1>8, <1>9, <1>10, <1>11, <1>12
     DEF Next, Main, NewUcnfNse, NewProcessEndpoints, Process, Cleanup

(* What validation accepted stays what the process runs with.              *)
LEMMA StartAccepted ==
  ASSUME TypeOK, AcceptedIsValid, [Next]_vars
  PROVE  AcceptedIsValid'
<1> USE DEF AcceptedIsValid, inputVars
<1>1. CASE NewConfig
  BY <1>1 DEF NewConfig, Valid, EndpointValid, ControlValid, VL3Valid
<1>2. CASE UNCHANGED <<config, accepted>>
  BY <1>2 DEF Valid, EndpointValid, ControlValid, VL3Valid
<1>3. NewConfig \/ UNCHANGED <<config, accepted>>
  BY DEF Next, Main, vars, NewUcnfNse, NewProcessEndpoints, Process, Cleanup, Signal,
         OpenFails, ResetFails, ResetVppAgent, AssembleLeased, AssembleLocal, Assembled,
         AssemblePanics, AllAssembled, EndpointFails, StartEndpoint, NameEndpoint,
         AllStarted, Receive, ReceiveVerified, Delete, Deleted, AllDeleted, Exit, Fatal, Panic
<1> QED
  BY <1>1, <1>2, <1>3

(* The only steps that crash are the dereferences of the assembly and the  *)
(* Cleanup after -verify: in a valid and complete configuration none of    *)
(* the former can fail, and a Cleanup that is called is there.             *)
LEMMA StartPanics ==
  ASSUME TypeOK, AcceptedIsValid, AcceptedNeverPanics, NamedInOrder, [Next]_vars
  PROVE  AcceptedNeverPanics'
<1> USE DEF AcceptedNeverPanics, inputVars, Index
<1>1. CASE AssemblePanics
  <2>1. ~accepted \/ \E k \in Index : ~Complete(config[k])
    <3> SUFFICES ASSUME accepted, Complete(config[i]) PROVE FALSE
      BY <1>1 DEF AssemblePanics
    <3>1. config[i].pool \in {"wide4", "wide6", "narrow"}
      BY <1>1 DEF AssemblePanics, AcceptedIsValid, Valid, EndpointValid, VL3Valid,
                  TypeOK
    <3> QED
      BY <1>1, <3>1 DEF AssemblePanics, LabelsPanic, AllocatePanics, LocalPanics,
                        AddonPanics, Here, Complete
  <2>2. UNCHANGED <<config, verify, octet, accepted>>
    BY <1>1 DEF AssemblePanics, Panic
  <2> QED
    BY <2>1, <2>2 DEF Complete
<1>2. CASE ReceiveVerified
  BY <1>2 DEF ReceiveVerified, Panic
<1>3. CASE UNCHANGED vars \/ Signal
  BY <1>3 DEF vars, Signal, Complete
<1>4. CASE NewUcnfNse
  BY <1>4 DEF NewUcnfNse, OpenFails, NewConfig, ResetFails, ResetVppAgent, Fatal
<1>5. CASE AssembleLeased \/ AssembleLocal \/ AllAssembled
  BY <1>5 DEF AssembleLeased, AssembleLocal, Assembled, AllAssembled
<1>6. CASE Process
  BY <1>6 DEF Process, EndpointFails, StartEndpoint, NameEndpoint, AllStarted, Fatal
<1>7. CASE Receive \/ AllDeleted \/ Exit
  BY <1>7 DEF Receive, AllDeleted, Exit
<1>8. CASE Delete
  BY <1>8 DEF Delete, Deleted, NamedInOrder
<1> QED
  BY <1>1, <1>2, <1>3, <1>4, <1>5, <1>6, <1>7, <1>8
     DEF Next, Main, NewProcessEndpoints, Cleanup

(* Endpoints are named and deleted in the order of the configuration.      *)
LEMMA StartRegistered ==
  ASSUME TypeOK, LoopInside, NamedInOrder, DeletedInOrder, [Next]_vars
  PROVE  NamedInOrder' /\ DeletedInOrder'
<1> USE DEF TypeOK, NamedInOrder, DeletedInOrder, Index, inputVars, nsmVars
<1>0. Len(config) \in Nat
  OBVIOUS
<1>1. CASE UNCHANGED vars \/ Signal
  BY <1>1 DEF vars, Signal
<1>2. CASE NewUcnfNse
  BY <1>2 DEF NewUcnfNse, OpenFails, NewConfig, ResetFails, ResetVppAgent, Fatal
<1>3. CASE NewProcessEndpoints
  BY <1>3 DEF NewProcessEndpoints, AssembleLeased, AssembleLocal, Assembled,
              AssemblePanics, AllAssembled, Panic
<1>4. CASE Process
  BY <1>0, <1>4 DEF Process, EndpointFails, StartEndpoint, NameEndpoint, AllStarted, Fatal
<1>5. CASE Delete
  <2>1. i \in named /\ i \in 1..Len(config) /\ UNCHANGED <<config, verify, main, named>>
    BY <1>5 DEF Delete, Deleted
  <2>2. /\ registered' \subseteq registered /\ kept \subseteq kept' /\ i' = i + 1
        /\ i \notin registered' \/ i \in kept'
    BY <1>5, <2>1 DEF Delete, Deleted
  <2>3. main = "delete"
    BY <1>5 DEF Delete, Deleted
  <2>4. registered' \subseteq (i + 1)..Len(config) \cup kept'
    BY <1>0, <2>1, <2>2, <2>3
  <2> QED
    BY <2>1, <2>2, <2>3, <2>4
<1>6. CASE Receive
  BY <1>6 DEF Receive
<1>7. CASE ReceiveVerified
  BY <1>7 DEF ReceiveVerified, Panic
<1>8. CASE AllDeleted
  <2>1. i..Len(config) = {}
    BY <1>0, <1>8 DEF AllDeleted
  <2>2. registered \subseteq kept
    BY <1>8, <2>1 DEF AllDeleted
  <2> QED
    BY <1>8, <2>2 DEF AllDeleted
<1>9. CASE Exit
  BY <1>9 DEF Exit
<1> QED
  BY <1>1, <1>2, <1>3, <1>4, <1>5, <1>6, <1>7, <1>8, <1>9 DEF Next, Main, Cleanup

(* The inductive invariant of a process, from its start to its end.        *)
THEOREM StartupInvariant == Spec => []IInv
<1>1. IInv /\ [Next]_vars => IInv'
  BY StartTypes, StartAccepted, StartPanics, StartRegistered DEF IInv
<1> QED
  BY StartInit, <1>1, PTL DEF Spec

(* Every variable of the start-up keeps its type.                          *)
THEOREM TypeCorrect == Spec => []TypeOK
<1>1. IInv => TypeOK
  BY DEF IInv
<1> QED
  BY <1>1, StartupInvariant, PTL

(* A process whose configuration validation accepted crashes only over an  *)
(* endpoint that is not complete: one without labels or nseControl, or one *)
(* whose prefix would be computed from an address of IPv6.                 *)
THEOREM AcceptedRuns == Spec => []AcceptedNeverPanics
<1>1. IInv => AcceptedNeverPanics
  BY DEF IInv
<1> QED
  BY <1>1, StartupInvariant, PTL

(* A process that ends after a signal leaves no endpoint at NSM but those  *)
(* whose own deletion NSM refused.                                         *)
THEOREM CleanExit == Spec => []ExitLeavesNothing
<1>1. IInv => ExitLeavesNothing
  BY DEF IInv, DeletedInOrder, ExitLeavesNothing
<1> QED
  BY <1>1, StartupInvariant, PTL

=============================================================================
