-------------------------- MODULE MCObservability --------------------------
(***************************************************************************)
(* Observability for TLC.                                                  *)
(***************************************************************************)
EXTENDS Observability
=============================================================================
