---------------------------- MODULE MCLifecycle ----------------------------
(***************************************************************************)
(* Instances of Lifecycle for TLC: more callers than connections.          *)
(***************************************************************************)
EXTENDS Lifecycle

AllFaults == [start |-> 1, stop |-> 1, error |-> 2, signal |-> 1, kill |-> 1]
=============================================================================
