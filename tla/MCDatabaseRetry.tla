-------------------------- MODULE MCDatabaseRetry --------------------------
(***************************************************************************)
(* DatabaseRetry with the defaults of the source.  Nothing else bounds it: *)
(* the number of failures is limited by the loops themselves.              *)
(***************************************************************************)
EXTENDS DatabaseRetry
=============================================================================
