---------------------------- MODULE MCVL3Peering ----------------------------
(* VL3Peering for TLC.  Workers are interchangeable, and so are endpoints. *)
EXTENDS VL3Peering, TLC

MCSymmetry == Permutations(Worker) \cup Permutations(NSE)

(* An answer with several endpoints is visited one after the other: the    *)
(* visits are those of as many answers with one.                           *)
MCSingleResponses == {{p} : p \in NSE}
=============================================================================
