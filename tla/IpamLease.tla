----------------------------- MODULE IpamLease -----------------------------
(***************************************************************************)
(* The subnet an endpoint leases from the central IPAM server:             *)
(* pkg/universal-cnf/config/config_ipam.go, with the part of               *)
(* NewProcessEndpoints (config_endpoints.go) that asks for it and the      *)
(* shutdown of cmd/vl3-nse/nse.go that gives it back.                      *)
(*                                                                         *)
(* Three goroutines: main, which allocates, serves and shuts down; Renew,  *)
(* which waits for a subnet or for the end of the context; and the renewal *)
(* loop Renew starts for the subnet, driven by a time.Tick of              *)
(* LeaseTimeout - 1 hours.  Time advances in units; the only calls that    *)
(* take time are the renewals.                                             *)
(*                                                                         *)
(* External: the IPAM server, which keeps a lease for LeaseTimeout hours   *)
(* from its last update.                                                   *)
(***************************************************************************)
EXTENDS Integers

CONSTANTS
  LeaseTimeout,   \* hours, chosen by the server
  Hour,           \* units of time in an hour
  MaxDelay,       \* units a renewal may take to reach the server (a bound)
  MayFail         \* the server may refuse a renewal or a release

ASSUME LeaseAssumption ==
  /\ LeaseTimeout \in Nat \ {0}
  /\ Hour \in Nat \ {0}
  /\ MaxDelay \in Nat
  /\ MayFail \in BOOLEAN

Tries == 6
Lease == LeaseTimeout * Hour

(* Mutant: the lease is renewed when it runs out.                          *)
PeriodOfLease == LeaseTimeout * Hour

(* The duration given to time.Tick; the channel of a Tick that is not      *)
(* positive is nil, and never delivers.                                    *)
Period == (LeaseTimeout - 1) * Hour

VARIABLES
  main,     \* where the main goroutine is
  tries,    \* calls of AllocateSubnet that failed
  up,       \* the endpoint is registered with NSM
  leased,   \* the endpoint's prefix is the leased subnet, not a local one
  left,     \* units left of the lease, at the server; 0: none, or it ran out
  freed,    \* the server was told that the subnet is not used any more
  renew,    \* Renew: in its "select", or "cleaned" (waiting for the loop)
  loop,     \* the renewal loop: "off", "waiting" for a tick, or "calling"
  toTick,   \* units to the next tick
  tick,     \* a tick is in the channel (it holds one)
  elapsed,  \* units the renewal under way has taken
  known     \* the subnet is in the map subnets

mainVars == <<main, tries, up, leased>>
loopVars == <<loop, toTick, tick, elapsed, known>>
vars == <<main, tries, up, leased, left, freed, renew,
          loop, toTick, tick, elapsed, known>>

FlagsOK == /\ up \in BOOLEAN /\ leased \in BOOLEAN /\ freed \in BOOLEAN
           /\ tick \in BOOLEAN /\ known \in BOOLEAN

TypeOK ==
  /\ FlagsOK
  /\ main \in {"allocating", "offering", "serving", "deleted", "cancelled", "exited"}
  /\ tries \in 0..Tries
  /\ left \in 0..Lease
  /\ renew \in {"select", "cleaned"}
  /\ loop \in {"off", "waiting", "calling"}
  /\ toTick \in 0..Period
  /\ elapsed \in 0..MaxDelay

Init ==
  /\ main = "allocating" /\ tries = 0 /\ up = FALSE /\ leased = FALSE
  /\ left = 0 /\ freed = FALSE
  /\ renew = "select"
  /\ loop = "off" /\ toTick = 0 /\ tick = FALSE /\ elapsed = 0 /\ known = FALSE

-----------------------------------------------------------------------------
(* AllocateSubnet.                                                         *)

AllocateSucceeds ==
  /\ main = "allocating"
  /\ main' = "offering" /\ leased' = TRUE /\ left' = Lease
  /\ UNCHANGED <<tries, up, freed, renew, loopVars>>

(* Mutant: the tries are never over.                                       *)
AllocateFailsForever ==
  /\ main = "allocating"
  /\ tries' = (tries + 1) % Tries
  /\ UNCHANGED <<main, up, leased, left, freed, renew, loopVars>>

(* Five failures are retried after a minute, the sixth is returned: the    *)
(* endpoint then uses a prefix it computes itself.                         *)
AllocateFails ==
  /\ main = "allocating"
  /\ tries' = tries + 1
  /\ IF tries' = Tries THEN main' = "serving" /\ up' = TRUE
                        ELSE UNCHANGED <<main, up>>
  /\ UNCHANGED <<leased, left, freed, renew, loopVars>>

(* The unbuffered channel hands the subnet to Renew, which starts the loop *)
(* and its ticker; AllocateSubnet returns, and the endpoint is started.    *)
Register ==
  /\ main = "offering" /\ renew = "select"
  /\ main' = "serving" /\ up' = TRUE
  /\ loop' = "waiting" /\ toTick' = Period
  /\ UNCHANGED <<tries, leased, left, freed, renew, tick, elapsed, known>>

-----------------------------------------------------------------------------
(* The renewal loop.                                                       *)

(* Time passes.  The ticker fires at a fixed rate, and drops a tick when   *)
(* the last one was not taken; the loop takes a tick at once when it       *)
(* waits, and a renewal reaches the server within MaxDelay; handing the    *)
(* subnet to Renew, which waits for it, takes no time.                     *)
Pass ==
  /\ main \notin {"offering", "exited"}
  /\ ~(loop = "waiting" /\ tick)
  /\ loop = "calling" => elapsed < MaxDelay
  /\ left' = IF left > 0 THEN left - 1 ELSE 0
  /\ elapsed' = IF loop = "calling" THEN elapsed + 1 ELSE 0
  /\ IF loop = "off" \/ Period <= 0
     THEN UNCHANGED <<toTick, tick>>
     ELSE IF toTick = 1 THEN toTick' = Period /\ tick' = TRUE
                        ELSE toTick' = toTick - 1 /\ tick' = tick
  /\ UNCHANGED <<mainVars, freed, renew, loop, known>>

RenewStarts ==
  /\ main # "exited"
  /\ loop = "waiting" /\ tick
  /\ loop' = "calling" /\ tick' = FALSE /\ elapsed' = 0
  /\ UNCHANGED <<mainVars, left, freed, renew, toTick, known>>

(* Mutant: a renewal adds to what is left.                                 *)
RenewReturnsAdding(extended) ==
  /\ loop = "calling" /\ extended /\ main # "cancelled"
  /\ left' = left + Lease
  /\ loop' = "waiting" /\ known' = TRUE /\ elapsed' = 0
  /\ UNCHANGED <<mainVars, freed, renew, toTick, tick>>

(* The call returns.  An error is only logged, and the subnet is put in    *)
(* the map in both cases; once the context has ended every call fails.     *)
RenewReturns(extended) ==
  /\ main # "exited"
  /\ loop = "calling"
  /\ extended => main # "cancelled"
  /\ ~extended => MayFail \/ main = "cancelled"
  /\ left' = IF extended THEN Lease ELSE left
  /\ loop' = "waiting" /\ known' = TRUE /\ elapsed' = 0
  /\ UNCHANGED <<mainVars, freed, renew, toTick, tick>>

RenewSucceeds == RenewReturns(TRUE)
RenewFails == RenewReturns(FALSE)

-----------------------------------------------------------------------------
(* Shutdown: the deferred calls of main, after a signal.                   *)

(* ucnfNse.Cleanup deletes the endpoints first.                            *)
DeleteEndpoints ==
  /\ main = "serving"
  /\ main' = "deleted" /\ up' = FALSE
  /\ UNCHANGED <<tries, leased, left, freed, renew, loopVars>>

(* Mutant: the context is cancelled first.                                 *)
CancelFirst ==
  /\ main = "serving"
  /\ main' = "cancelled"
  /\ UNCHANGED <<tries, up, leased, left, freed, renew, loopVars>>

Cancel ==
  /\ main = "deleted"
  /\ main' = "cancelled"
  /\ UNCHANGED <<tries, up, leased, left, freed, renew, loopVars>>

(* Renew sees the end of the context and frees the subnets of the map.     *)
CleanUp ==
  /\ main = "cancelled" /\ renew = "select"
  /\ renew' = "cleaned"
  /\ \E refused \in {FALSE, MayFail} :
       IF known /\ ~refused THEN left' = 0 /\ freed' = TRUE
                            ELSE UNCHANGED <<left, freed>>
  /\ UNCHANGED <<mainVars, loopVars>>

(* main returns, and waits for no goroutine.                               *)
Exit ==
  /\ main = "cancelled"
  /\ main' = "exited"
  /\ UNCHANGED <<tries, up, leased, left, freed, renew, loopVars>>

-----------------------------------------------------------------------------
Allocate == AllocateSucceeds \/ AllocateFails \/ Register
Shutdown == DeleteEndpoints \/ Cancel \/ CleanUp \/ Exit
Renewal == RenewStarts \/ RenewSucceeds \/ RenewFails

Next == Allocate \/ Pass \/ Renewal \/ Shutdown

Spec == Init /\ [][Next]_vars

(* Calls of the server return, and goroutines that can run do.             *)
FairSpec == Spec /\ WF_vars(Allocate)

-----------------------------------------------------------------------------
(* Properties.                                                             *)

(* ipprovider.proto:34, "Amount of time a lease can be held without an     *)
(* update in hours".  An endpoint that hands out addresses of a leased     *)
(* subnet holds the lease: the ticks, the renewals under way and the time  *)
(* the lease runs for never leave a gap.                                   *)
HoldsWhileServing == up /\ leased => left > 0

(* The subnet is given back only when the endpoint that hands out its      *)
(* addresses is gone, though another goroutine gives it back.              *)
FreedAfterDelete == freed => ~up

(* However the server answers, the endpoint comes up, with a leased subnet *)
(* or with one of its own.                                                 *)
AllocationEnds == main = "allocating" ~> up

(* config_ipam.go:75, "Cleaning registered subnets": what Renew cleaned up *)
(* is free at the server.                                                  *)
CleanedIsFreed == renew = "cleaned" /\ leased => freed \/ left = 0
=============================================================================
