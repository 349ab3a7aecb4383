------------------------- MODULE MCWorkloadRegistry -------------------------
(* Constants for model-checking WorkloadRegistry.                          *)
EXTENDS WorkloadRegistry, TLC

CONSTANTS a, b, p, q, u

Labels(service, pod, ports) ==
  [cluster |-> "east", service |-> service, pod |-> pod, ports |-> ports]

(* a and b are workloads of one service; q has a port out of range, p one  *)
(* that is no number, and u has no service.                                *)
MCLabels == a :> Labels("web", "pod1", <<80, 443>>) @@ b :> Labels("web", "pod2", <<65535>>)
            @@ q :> Labels("db", "pod1", <<80, 70000>>)
            @@ p :> Labels("db", "pod2", <<80, NotNumber>>) @@ u :> Labels("", "pod1", <<80>>)
=============================================================================
