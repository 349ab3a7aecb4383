-------------------------- MODULE IpamLeaseProofs --------------------------
(***************************************************************************)
(* What holds of IpamLease for every lease, unit of time and delay.        *)
(***************************************************************************)
EXTENDS IpamLease, TLAPS

(* The lease and the period are an hour apart, in whatever units.          *)
LEMMA Arithmetic ==
  /\ Lease \in Nat /\ Period \in Nat /\ Lease = Period + Hour
  /\ LeaseTimeout >= 2 => Period >= Hour
<1>1. LeaseTimeout \in Nat /\ LeaseTimeout >= 1 /\ Hour \in Nat /\ Hour >= 1
  BY LeaseAssumption
<1>2. LeaseTimeout * Hour \in Nat
  BY <1>1
<1>3. PICK k \in Nat : LeaseTimeout = k + 1
  <2>1. LeaseTimeout - 1 \in Nat /\ LeaseTimeout = (LeaseTimeout - 1) + 1
    BY <1>1
  <2> QED BY <2>1
<1>4. (k + 1) * Hour = k * Hour + Hour /\ k * Hour \in Nat
  BY <1>1, <1>3
<1>5. LeaseTimeout - 1 = k
  BY <1>1, <1>3
<1>6. Period = k * Hour /\ Lease = k * Hour + Hour
  BY <1>3, <1>4, <1>5 DEF Period, Lease
<1>7. ASSUME LeaseTimeout >= 2 PROVE k * Hour >= Hour
  <2>1. PICK j \in Nat : k = j + 1
    <3>1. k - 1 \in Nat /\ k = (k - 1) + 1
      BY <1>3, <1>7
    <3> QED BY <3>1
  <2>2. k * Hour = j * Hour + Hour /\ j * Hour \in Nat
    BY <1>1, <2>1
  <2> QED BY <1>1, <2>2
<1> QED BY <1>1, <1>4, <1>6, <1>7

-----------------------------------------------------------------------------
(* What keeps the variables in their types: a ticker that runs has a unit  *)
(* at least to its next tick, and there is a next try before the last.     *)
TypeInv ==
  /\ TypeOK
  /\ main = "allocating" => tries < Tries
  /\ loop # "off" /\ Period > 0 => toTick > 0

(* The Boolean variables stay Boolean in every step.                       *)
LEMMA FlagsStep == FlagsOK /\ [Next]_vars => FlagsOK'
<1> SUFFICES ASSUME FlagsOK, [Next]_vars PROVE FlagsOK'
  OBVIOUS
<1> USE DEF FlagsOK
<1>1. CASE Allocate
  BY <1>1, Zenon DEF Allocate, AllocateSucceeds, AllocateFails, Register, loopVars
<1>2. CASE Pass
  BY <1>2, Zenon DEF Pass, mainVars
<1>3. CASE Renewal
  BY <1>3, Zenon DEF Renewal, RenewStarts, RenewSucceeds, RenewFails, RenewReturns, mainVars
<1>4. CASE Shutdown
  BY <1>4, Zenon DEF Shutdown, DeleteEndpoints, Cancel, CleanUp, Exit, mainVars, loopVars
<1>5. CASE UNCHANGED vars
  BY <1>5 DEF vars
<1> QED BY <1>1, <1>2, <1>3, <1>4, <1>5 DEF Next

(* TypeInv holds at the start.                                             *)
LEMMA TypeInit == Init => TypeInv
<1>1. Init => FlagsOK
  BY Zenon DEF Init, FlagsOK
<1> QED BY <1>1, Arithmetic, LeaseAssumption DEF Init, TypeInv, TypeOK, Tries

(* No step breaks TypeInv: the ticker is reset to a whole period, and a    *)
(* renewal to a whole lease.                                               *)
LEMMA TypeStep == TypeInv /\ [Next]_vars => TypeInv'
<1> SUFFICES ASSUME TypeInv, [Next]_vars PROVE TypeInv'
  OBVIOUS
<1>0. FlagsOK'
  BY FlagsStep DEF TypeInv, TypeOK
<1> USE <1>0 DEF TypeInv, TypeOK, Tries
<1>1. CASE AllocateSucceeds
  BY <1>1, Arithmetic DEF AllocateSucceeds, loopVars
<1>2. CASE AllocateFails
  BY <1>2 DEF AllocateFails, loopVars
<1>3. CASE Register
  BY <1>3, Arithmetic DEF Register
<1>4. CASE Pass
  <2>1. left' \in 0..Lease
    BY <1>4, Arithmetic DEF Pass
  <2>2. elapsed' \in 0..MaxDelay
    BY <1>4, LeaseAssumption DEF Pass
  <2>3. toTick' \in 0..Period /\ (loop' # "off" /\ Period > 0 => toTick' > 0)
    BY <1>4, Arithmetic DEF Pass, loopVars
  <2> QED BY <1>4, <2>1, <2>2, <2>3 DEF Pass, mainVars
<1>5. CASE RenewStarts
  BY <1>5, LeaseAssumption DEF RenewStarts, mainVars
<1>6. ASSUME NEW extended \in BOOLEAN, RenewReturns(extended) PROVE TypeInv'
  <2>1. left' \in 0..Lease
    BY <1>6, Arithmetic DEF RenewReturns
  <2> QED BY <1>6, <2>1, LeaseAssumption DEF RenewReturns, mainVars
<1>7. CASE CleanUp
  <2>1. left' \in 0..Lease
    BY <1>7, Arithmetic DEF CleanUp
  <2> QED BY <1>7, <2>1 DEF CleanUp, mainVars, loopVars
<1>8. CASE DeleteEndpoints \/ Cancel \/ Exit
  BY <1>8 DEF DeleteEndpoints, Cancel, Exit, loopVars
<1>9. CASE UNCHANGED vars
  BY <1>9 DEF vars
<1> QED
  BY <1>1, <1>2, <1>3, <1>4, <1>5, <1>6, <1>7, <1>8, <1>9
  DEF Next, Allocate, Renewal, Shutdown, RenewSucceeds, RenewFails

(* Every variable stays in its type, whatever the lease, the unit of time  *)
(* and the delay of renewals, a lease of one hour included.                *)
THEOREM TypeCorrect == Spec => []TypeOK
<1>1. TypeInv => TypeOK
  BY DEF TypeInv
<1> QED BY <1>1, TypeInit, TypeStep, PTL DEF Spec

-----------------------------------------------------------------------------
(* While the endpoint is up, the lease outlasts the next tick by an hour   *)
(* when the loop waits, and what is left of that hour covers the renewal   *)
(* under way.                                                              *)
LeaseCovers ==
  /\ up => main = "serving"
  /\ main = "allocating" => ~leased /\ loop = "off"
  /\ main = "offering" => loop = "off" /\ left = Lease
  /\ loop = "off" => ~tick
  /\ up /\ leased => loop # "off"
  /\ up /\ loop = "waiting" /\ tick => toTick = Period /\ left >= Hour
  /\ up /\ loop = "waiting" /\ ~tick => left >= toTick + Hour
  /\ up /\ loop = "calling" => /\ ~tick
                               /\ toTick = Period - elapsed
                               /\ left >= Hour - elapsed

SafeInv == TypeInv /\ LeaseCovers

(* The lease is never lost while the endpoint hands out its addresses, for *)
(* every lease of two hours or more, if no renewal is refused and each     *)
(* reaches the server within the hour the ticker leaves it.                *)
THEOREM LeaseHeld ==
  ASSUME LeaseTimeout >= 2, MaxDelay < Hour, MayFail = FALSE
  PROVE  Spec => []HoldsWhileServing
<1>1. Init => SafeInv
  <2>1. Init => LeaseCovers
    BY DEF Init, LeaseCovers
  <2> QED BY <2>1, TypeInit DEF SafeInv
<1>2. SafeInv /\ [Next]_vars => SafeInv'
  <2> SUFFICES ASSUME SafeInv, [Next]_vars PROVE LeaseCovers'
    BY TypeStep DEF SafeInv
  <2> USE DEF SafeInv, LeaseCovers
  <2>0. TypeOK /\ Hour \in Nat /\ MaxDelay \in Nat /\ Hour >= 1
    BY LeaseAssumption DEF TypeInv
  <2>1. CASE AllocateSucceeds
    BY <2>1 DEF AllocateSucceeds, loopVars
  <2>2. CASE AllocateFails
    BY <2>2 DEF AllocateFails, loopVars
  <2>3. CASE Register
    BY <2>3, Arithmetic DEF Register
  <2>4. CASE Pass
    <3>1. CASE loop = "off"
      BY <2>4, <3>1 DEF Pass, mainVars
    <3>2. CASE loop = "waiting"
      BY <2>0, <2>4, <3>2, Arithmetic DEF Pass, mainVars, TypeOK, FlagsOK
    <3>3. CASE loop = "calling"
      BY <2>0, <2>4, <3>3, Arithmetic DEF Pass, mainVars, TypeOK, FlagsOK
    <3> QED BY <2>0, <3>1, <3>2, <3>3 DEF TypeOK
  <2>5. CASE RenewStarts
    BY <2>0, <2>5, Arithmetic DEF RenewStarts, mainVars, TypeOK
  <2>6. CASE RenewSucceeds
    BY <2>0, <2>6, Arithmetic DEF RenewSucceeds, RenewReturns, mainVars, TypeOK
  <2>7. CASE RenewFails
    BY <2>7 DEF RenewFails, RenewReturns, mainVars
  <2>8. CASE Shutdown
    BY <2>8 DEF Shutdown, DeleteEndpoints, Cancel, CleanUp, Exit, mainVars, loopVars
  <2>9. CASE UNCHANGED vars
    BY <2>9 DEF vars
  <2> QED
    BY <2>1, <2>2, <2>3, <2>4, <2>5, <2>6, <2>7, <2>8, <2>9
    DEF Next, Allocate, Renewal
<1>3. SafeInv => HoldsWhileServing
  <2> SUFFICES ASSUME SafeInv, up, leased PROVE left > 0
    BY DEF HoldsWhileServing
  <2>1. Hour \in Nat /\ Hour >= 1 /\ MaxDelay \in Nat /\ Period \in Nat
        /\ left \in Nat /\ elapsed \in 0..MaxDelay /\ toTick \in Nat
    BY LeaseAssumption, Arithmetic DEF SafeInv, TypeInv, TypeOK
  <2>2. CASE loop = "waiting" /\ tick
    BY <2>1, <2>2 DEF SafeInv, LeaseCovers
  <2>3. CASE loop = "waiting" /\ ~tick
    BY <2>1, <2>3 DEF SafeInv, LeaseCovers
  <2>4. CASE loop = "calling"
    BY <2>1, <2>4 DEF SafeInv, LeaseCovers
  <2> QED BY <2>2, <2>3, <2>4 DEF SafeInv, LeaseCovers, TypeInv, TypeOK
<1> QED BY <1>1, <1>2, <1>3, PTL DEF Spec

-----------------------------------------------------------------------------
(* The order of the deferred calls in main: nothing is cancelled before    *)
(* the endpoint is deleted, and only the end of the context frees.         *)
ShutdownOrder ==
  /\ up => main = "serving"
  /\ freed => main \in {"cancelled", "exited"}

(* The subnet is given back only after the endpoint is gone, whatever the  *)
(* lease and however renewals fare.                                        *)
THEOREM FreedLast == Spec => []FreedAfterDelete
<1>1. Init => ShutdownOrder
  BY DEF Init, ShutdownOrder
<1>2. ShutdownOrder /\ [Next]_vars => ShutdownOrder'
  <2> SUFFICES ASSUME ShutdownOrder, [Next]_vars PROVE ShutdownOrder'
    OBVIOUS
  <2> USE DEF ShutdownOrder
  <2>1. CASE Allocate
    BY <2>1 DEF Allocate, AllocateSucceeds, AllocateFails, Register, loopVars
  <2>2. CASE Pass
    BY <2>2 DEF Pass, mainVars
  <2>3. CASE Renewal
    BY <2>3 DEF Renewal, RenewStarts, RenewSucceeds, RenewFails, RenewReturns, mainVars
  <2>4. CASE Shutdown
    BY <2>4 DEF Shutdown, DeleteEndpoints, Cancel, CleanUp, Exit, mainVars, loopVars
  <2>5. CASE UNCHANGED vars
    BY <2>5 DEF vars
  <2> QED BY <2>1, <2>2, <2>3, <2>4, <2>5 DEF Next
<1>3. ShutdownOrder => FreedAfterDelete
  BY DEF ShutdownOrder, FreedAfterDelete
<1> QED BY <1>1, <1>2, <1>3, PTL DEF Spec
=============================================================================
