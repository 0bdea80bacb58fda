------------------------------- MODULE MCBulk -------------------------------
(***************************************************************************)
(* BulkRefresh with small numbers of requests and operations for TLC.      *)
(***************************************************************************)
EXTENDS BulkRefresh, TLC
=============================================================================
