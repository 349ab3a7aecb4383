---------------------------- MODULE MCNseStartup ----------------------------
(* Configurations for model-checking NseStartup: none, one or two          *)
(* endpoints of every kind; the second has its labels and valid routes.    *)
EXTENDS NseStartup

MCSecond == {e \in Endpoint : e.labels /\ e.routesOk}

MCConfigs == {<<>>} \cup {<<e>> : e \in Endpoint}
                    \cup {<<e, f>> : e \in Endpoint, f \in MCSecond}
=============================================================================
