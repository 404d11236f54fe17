--------------------------- MODULE MCPlaceholders ---------------------------
(***************************************************************************)
(* Every text of up to six characters and every batch of up to three rows. *)
(***************************************************************************)
EXTENDS Placeholders
=============================================================================
