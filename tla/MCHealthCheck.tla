--------------------------- MODULE MCHealthCheck ---------------------------
(***************************************************************************)
(* HealthCheck with the values of settings.py and k8s/deployment.yaml; a   *)
(* tick is five seconds.                                                   *)
(***************************************************************************)
EXTENDS HealthCheck

AllFaults ==
    [signal |-> 1, block |-> 2, hang |-> 1, error |-> 1, kill |-> 1, timeout |-> 2]
=============================================================================
