----------------------------- MODULE NseStartup -----------------------------
(***************************************************************************)
(* One endpoint process from its configuration file to its end: the main   *)
(* functions of cmd/vl3-nse/nse.go and cmd/universal-cnf-vpp/main.go,      *)
(* NewUcnfNse (pkg/universal-cnf/ucnf), the validation of pkg/nseconfig    *)
(* and the assembly, start and deletion of the endpoints in                *)
(* config_endpoints.go.                                                    *)
(*                                                                         *)
(* A configuration is what the decoder left: validation only warns, and    *)
(* the process goes on with whatever it has.  What main does next depends  *)
(* on pointers and maps the configuration may not have set.                *)
(*                                                                         *)
(* External: NSM (an endpoint is registered with it, or not), the VPP      *)
(* agent, the IPAM server and the operator who sends a signal.             *)
(***************************************************************************)
EXTENDS Integers, Sequences

CONSTANTS
  Program,     \* "vl3" (vl3-nse) or "ucnf" (universal-cnf-vpp)
  Configs,     \* the configurations a file may hold
  Verify,      \* the values the flag -verify may have
  Octets       \* where the octet of a computed prefix may come from

(* What the code tells apart in an endpoint of the file: whether it has    *)
(* labels; nseControl, left out, or with fields that are not set; the      *)
(* default prefix pool; the routes; and the address of an IPAM server.     *)
(* A pool is a subnet with a mask of 16 or less, of IPv4 or of IPv6, a     *)
(* subnet with a longer mask (of either), some other text, or empty.       *)
Endpoint == [labels : BOOLEAN, control : {"absent", "partial", "complete"},
             pool : {"wide4", "wide6", "narrow", "text", "empty"},
             routesOk : BOOLEAN, server : BOOLEAN]

(* The octet is given by NSE_IPAM_UNIQUE_OCTET, or taken from an address   *)
(* in NSE_POD_IP (set or not, or no address), which may be one of IPv6.    *)
Octet == {"given", "pod4", "pod6"}

ASSUME StartupAssumption ==
  /\ Program \in {"vl3", "ucnf"}
  /\ Configs \subseteq Seq(Endpoint)
  /\ Verify \subseteq BOOLEAN
  /\ Octets \subseteq Octet

VARIABLES
  config,      \* cnfConfig.Endpoints
  verify,      \* mainFlags.Verify
  octet,       \* where this process takes the octet from
  accepted,    \* NewConfig returned no error
  main,        \* where the main goroutine is
  i,           \* the endpoint its loop is at
  prefix,      \* configuration.IPAddress of the endpoints assembled so far
  leases,      \* endpoints a subnet was leased for
  registered,  \* endpoints NSM has
  named,       \* endpoints whose NseName and Cleanup are stored
  kept,        \* endpoints NSM refused to delete (history)
  agent,       \* what VPP has: "previous" configuration, or "empty"
  signalled,   \* a signal is in the channel, or was
  cancelled    \* the context of the process has ended

vars == <<config, verify, octet, accepted, main, i, prefix, leases, registered,
          named, kept, agent, signalled, cancelled>>
inputVars == <<config, verify, octet>>
nsmVars == <<registered, named, kept>>
subnetVars == <<prefix, leases>>

Index == 1..Len(config)
Ended == {"fatal", "panicked", "exited"}

TypeOK ==
  /\ config \in Seq(Endpoint) /\ verify \in BOOLEAN /\ octet \in Octet
  /\ accepted \in BOOLEAN
  /\ main \in {"load", "reset", "assemble", "start", "name", "wait", "delete",
               "return"} \cup Ended
  /\ i \in 1..(Len(config) + 1)
  /\ prefix \in Seq({"leased", "local", "none"})
  /\ leases \subseteq Index /\ registered \subseteq Index /\ named \subseteq Index
  /\ kept \subseteq Index
  /\ agent \in {"previous", "empty"}
  /\ signalled \in BOOLEAN /\ cancelled \in BOOLEAN

Init ==
  /\ config \in Configs /\ verify \in Verify /\ octet \in Octets
  /\ accepted = FALSE
  /\ main = "load" /\ i = 1
  /\ prefix = <<>> /\ leases = {} /\ registered = {} /\ named = {} /\ kept = {}
  /\ agent = "previous"
  /\ signalled = FALSE /\ cancelled = FALSE

-----------------------------------------------------------------------------
(* nseconfig.                                                              *)

(* NseControl.validate: a section that is left out is not an error.        *)
ControlValid(e) == e.control # "partial"

(* Mutant: the prefix pool is not looked at.                               *)
VL3ValidRoutes(e) == e.routesOk

(* VL3.validate: the pool must be a subnet, and so must every route.       *)
VL3Valid(e) == e.pool \in {"wide4", "wide6", "narrow"} /\ e.routesOk

EndpointValid(e) == ControlValid(e) /\ VL3Valid(e)

Valid(c) == c # <<>> /\ \A k \in DOMAIN c : EndpointValid(c[k])

-----------------------------------------------------------------------------
(* NewUcnfNse.                                                             *)

Fatal ==
  /\ main' = "fatal"
  /\ UNCHANGED <<inputVars, accepted, i, subnetVars, nsmVars, agent, signalled,
                 cancelled>>

Panic ==
  /\ main' = "panicked"
  /\ UNCHANGED <<inputVars, accepted, i, subnetVars, nsmVars, agent, signalled,
                 cancelled>>

(* The file cannot be opened.                                              *)
OpenFails == main = "load" /\ Fatal

(* NewConfig: a decoding error, or an error of validate, is only logged.   *)
NewConfig ==
  /\ main = "load"
  /\ accepted' \in {FALSE, Valid(config)}
  /\ main' = "reset"
  /\ UNCHANGED <<inputVars, i, subnetVars, nsmVars, agent, signalled, cancelled>>

(* The agent's port does not come up.                                      *)
ResetFails == main = "reset" /\ Fatal

(* ResetVppAgent, whose Update may fail, which is only logged; and with    *)
(* -verify that was all.                                                   *)
ResetVppAgent ==
  /\ main = "reset"
  /\ agent' \in {"previous", "empty"}
  /\ main' = IF verify THEN "wait" ELSE "assemble"
  /\ UNCHANGED <<inputVars, accepted, i, subnetVars, nsmVars, signalled, cancelled>>

-----------------------------------------------------------------------------
(* NewProcessEndpoints: one endpoint at a time.                            *)

Here == config[i]

(* The pod's name is stored in the map of labels, which may be nil.        *)
LabelsPanic == ~Here.labels

(* AllocateSubnet reads nseControl.                                        *)
AllocatePanics == Here.server /\ Here.control = "absent"

(* buildIpPrefixFromLocal uses the network of a pool it could not parse;   *)
(* with a mask of 16 or less it indexes the IPv4 form of the pool, and of  *)
(* the pod's address, which for IPv6 is nil.                               *)
LocalPanics == \/ Here.pool \in {"text", "wide6"}
               \/ Here.pool = "wide4" /\ octet = "pod6"

(* AddCompositeEndpoints of vl3-nse reads nseControl.                      *)
AddonPanics == Program = "vl3" /\ Here.control = "absent"

Assembled(p) ==
  /\ main = "assemble" /\ i \in Index
  /\ ~LabelsPanic /\ ~AddonPanics
  /\ prefix' = Append(prefix, p)
  /\ i' = i + 1
  /\ UNCHANGED <<inputVars, accepted, main, nsmVars, agent, signalled, cancelled>>

AssembleLeased ==
  /\ Assembled("leased")
  /\ Here.server /\ ~AllocatePanics
  /\ leases' = leases \cup {i}

(* No server is configured, or it cannot be dialled, or it refused six     *)
(* times: the prefix is computed from the pool, if there is one.           *)
AssembleLocal ==
  /\ \E p \in {"local", "none"} :
       /\ Assembled(p)
       /\ ~LocalPanics
       /\ p = "none" <=> Here.pool = "empty"
  /\ UNCHANGED leases

AssemblePanics ==
  /\ main = "assemble" /\ i \in Index
  /\ LabelsPanic \/ AllocatePanics \/ LocalPanics \/ AddonPanics
  /\ Panic

AllAssembled ==
  /\ main = "assemble" /\ i = Len(config) + 1
  /\ main' = "start" /\ i' = 1
  /\ UNCHANGED <<inputVars, accepted, subnetVars, nsmVars, agent, signalled, cancelled>>

-----------------------------------------------------------------------------
(* Process.                                                                *)

(* NewNSMEndpoint fails: log.Fatal, which runs no deferred call.           *)
EndpointFails == main = "start" /\ i \in Index /\ Fatal

(* Mutant: the loop goes one endpoint too far.                             *)
StartEndpointPast ==
  /\ main = "start"
  /\ registered' \in {registered, registered \cup {i}}
  /\ main' = "name"
  /\ UNCHANGED <<inputVars, accepted, i, subnetVars, named, kept, agent, signalled,
                 cancelled>>

(* Start registers the endpoint with NSM; its error is not looked at.      *)
StartEndpoint ==
  /\ main = "start" /\ i \in Index
  /\ registered' \in {registered, registered \cup {i}}
  /\ main' = "name"
  /\ UNCHANGED <<inputVars, accepted, i, subnetVars, named, kept, agent, signalled,
                 cancelled>>

(* The name NSM gave the endpoint, and the function that deletes it.       *)
NameEndpoint ==
  /\ main = "name"
  /\ named' = named \cup {i}
  /\ main' = "start" /\ i' = i + 1
  /\ UNCHANGED <<inputVars, accepted, subnetVars, registered, kept, agent, signalled,
                 cancelled>>

AllStarted ==
  /\ main = "start" /\ i = Len(config) + 1
  /\ main' = "wait"
  /\ UNCHANGED <<inputVars, accepted, i, subnetVars, nsmVars, agent, signalled, cancelled>>

-----------------------------------------------------------------------------
(* The end.                                                                *)

Signal ==
  /\ ~signalled /\ main \notin Ended
  /\ signalled' = TRUE
  /\ UNCHANGED <<inputVars, accepted, main, i, subnetVars, nsmVars, agent, cancelled>>

(* The deferred Cleanup; after -verify there is nothing it can be called   *)
(* on, and it dereferences nil.                                            *)
Receive ==
  /\ main = "wait" /\ signalled /\ ~verify
  /\ main' = "delete" /\ i' = 1
  /\ UNCHANGED <<inputVars, accepted, subnetVars, nsmVars, agent, signalled, cancelled>>

ReceiveVerified == main = "wait" /\ signalled /\ verify /\ Panic

(* The Cleanup of endpoint i, a function that may be missing, has NSM      *)
(* delete d; it drops the error of a deletion that NSM refused.            *)
Deleted(d) ==
  /\ main = "delete" /\ i \in Index
  /\ IF i \in named
     THEN /\ \/ registered' = registered \ {d} /\ UNCHANGED kept
             \/ kept' = kept \cup {d} /\ UNCHANGED registered
          /\ i' = i + 1
          /\ UNCHANGED <<inputVars, accepted, main, subnetVars, named, agent, signalled,
                         cancelled>>
     ELSE Panic

(* Mutant: every Cleanup deletes the endpoint that was started last.       *)
DeleteLast == Deleted(Len(config))

Delete == Deleted(i)

(* Mutant: main waits for the end of a context it has not cancelled yet.   *)
AllDeletedWaits ==
  /\ main = "delete" /\ i = Len(config) + 1 /\ cancelled
  /\ main' = "return"
  /\ UNCHANGED <<inputVars, accepted, i, subnetVars, nsmVars, agent, signalled, cancelled>>

(* vl3-nse cancels its context; universal-cnf-vpp has none to cancel.      *)
AllDeleted ==
  /\ main = "delete" /\ i = Len(config) + 1
  /\ main' = "return" /\ cancelled' = (Program = "vl3")
  /\ UNCHANGED <<inputVars, accepted, i, subnetVars, nsmVars, agent, signalled>>

Exit ==
  /\ main = "return"
  /\ main' = "exited"
  /\ UNCHANGED <<inputVars, accepted, i, subnetVars, nsmVars, agent, signalled, cancelled>>

-----------------------------------------------------------------------------
NewUcnfNse == OpenFails \/ NewConfig \/ ResetFails \/ ResetVppAgent
NewProcessEndpoints == AssembleLeased \/ AssembleLocal \/ AssemblePanics \/ AllAssembled
Process == EndpointFails \/ StartEndpoint \/ NameEndpoint \/ AllStarted
Cleanup == Receive \/ ReceiveVerified \/ Delete \/ AllDeleted \/ Exit

Main == NewUcnfNse \/ NewProcessEndpoints \/ Process \/ Cleanup
Next == Main \/ Signal

Spec == Init /\ [][Next]_vars

(* The main goroutine runs, and the calls it makes return.                 *)
FairSpec == Spec /\ WF_vars(Main)

-----------------------------------------------------------------------------
(* Properties.                                                             *)

(* A configuration says all that the start-up reads without looking, and   *)
(* its prefix can be computed by what "assumes ipv4", as the comment of    *)
(* config_endpoints.go:75 says.                                            *)
Complete(e) ==
  /\ e.labels /\ e.control # "absent"
  /\ e.pool # "wide6" /\ (octet = "pod6" => e.pool # "wide4")

(* A process whose configuration validation accepted never crashes,        *)
(* neither in the start-up, whether the IPAM server answers or not, nor in *)
(* the clean-up, unless an endpoint is incomplete in one of the ways       *)
(* Complete names: these are all that validation lets through.             *)
AcceptedNeverPanics ==
  main = "panicked" =>
    verify \/ ~accepted \/ \E k \in Index : ~Complete(config[k])

(* The test "success-minimal-config" (config_test.go:37) accepts a         *)
(* configuration without labels and nseControl; a process whose            *)
(* configuration is accepted starts.                                       *)
AcceptedStarts == main = "panicked" => verify \/ ~accepted

(* After a signal the process leaves no endpoint at NSM but one whose own  *)
(* deletion NSM refused, an error config_endpoints.go drops in line 199:   *)
(* none is passed over because of what happened to another.                *)
ExitLeavesNothing == main = "exited" => registered \subseteq kept

(* A signal ends the process, also one that comes during the start-up.     *)
SignalEnds == signalled ~> main \in Ended
=============================================================================
