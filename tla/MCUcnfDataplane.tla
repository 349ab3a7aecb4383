-------------------------- MODULE MCUcnfDataplane --------------------------
(* Constants for model-checking UcnfDataplane.                             *)
EXTENDS UcnfDataplane, TLC

CONSTANTS x, y, z, podX, podY

(* x and y come from labelled pods, z has no label.                        *)
MCLabels == x :> podX @@ y :> podY @@ z :> None

(* Two clients without a label, whose interfaces get numbers.              *)
MCNumbered == x :> podX @@ y :> None @@ z :> None

(* The same with two clients only.                                         *)
MCNumberedPair == x :> podX @@ y :> None
=============================================================================
