----------------------------- MODULE MCDatabase -----------------------------
(***************************************************************************)
(* Database with small sets of callers and providers for TLC.              *)
(***************************************************************************)
EXTENDS Database, TLC
=============================================================================
